---- MODULE Spec2Model ----
(***************************************************************************)
(* A model of noctua's charm commands (src/commands/charm.py) and of the   *)
(* charmcraft service they drive (src/services/charmcraft.py).             *)
(* Further down: the rock tags and manifest (src/services/rockcraft.py,    *)
(* src/commands/rock.py) and the CI report (src/services/github.py).       *)
(*                                                                         *)
(* Text is a sequence of chunks: "latest/edge" is <<"t", "/", "edge">>.    *)
(* A chunk is a piece of text that the code only ever treats as a whole    *)
(* (a track letter, a slash, a blank, a newline, a risk word).             *)
(* A JSON value that may be null is None (<<>>) or Some(v) (<<v>>).        *)
(* A Python dict is a sequence of [key, value] entries with distinct keys, *)
(* in insertion order.                                                     *)
(***************************************************************************)
EXTENDS Integers, Sequences, FiniteSets, TLC

VARIABLES
    charmhub,      \* what `charmcraft status` answers now (the registry)
    at_start,      \* the registry when the command was started
    pc,            \* position of the command: idle, hop, loop, done, failed
    hops,          \* promote calls the command still has to make (sources)
    source,        \* promote: the source channel name
    target,        \* promote: the target channel name
    dry_run,       \* the --dry-run flag of the command
    track_status,  \* promote: the TrackStatus being walked
    idx,           \* promote: position of the loop in track_status.bases
    calls,         \* external charmcraft calls made so far, in order
    reads,         \* the answers of the status calls made so far, in order
    console,       \* notices printed so far, in order
    err,           \* the exception that ended the command, or "none"
    files,         \* what the command finds on disk: charm file, metadata, libraries
    release_to,    \* release: the --channel argument
    uploaded,      \* release: the CharmUpload built by upload
    libraries,     \* publish: the libraries that belong to the charm
    store,         \* what was uploaded or published to the registry, in order
    charm_channel, \* CharmChannel.name of the channel object at hand
    first,         \* the name the first channel object was constructed with
    steps,         \* how many times next_risk_channel was followed from it
    outcome,       \* what the last property read returned or raised
    folders,       \* rock: the names os.listdir() finds in the working directory
    tags_per_version, \* rock: what the last local_tags call returned
    manifest,      \* rock: the manifest the last oci_factory_manifest call built
    rock_call,     \* rock: the last call made: its name, what it raised, its clock reads
    github,        \* what the gh command answers: team repos, READMEs, runs
    workflow_result, \* the WorkflowStatus the last workflow_status call returned
    ci_status,     \* what the last team_ci_status call returned
    github_call,   \* the last gh-backed call made: its name and what it raised
    oci,           \* rock: the HTTP requests oci_factory_tags made and what it returned
    charm_libs,    \* libraries: the ones under lib/charms and the ones list-lib answers
    outdated,      \* libraries: what the last outdated_charm_libraries call returned
    disk,          \* pack: the files of the charm folder and of the temporary folder
    pack_call,     \* pack: the position of the pack call and how it ended
    pod,           \* kubernetes: what kubectl answers about the pod
    wait_call      \* kubernetes: the position of the call at hand and how it ended

promote_vars == <<hops, source, target, track_status, reads>>

upload_vars == <<files, release_to, uploaded, libraries>>

charm_vars == <<charmhub, at_start, store, pc, dry_run, idx, calls, console, err,
                promote_vars, upload_vars>>

channel_vars == <<charm_channel, first, steps, outcome>>

rock_vars == <<folders, tags_per_version, manifest, rock_call, oci>>

github_vars == <<github, workflow_result, ci_status, github_call>>

library_vars == <<charm_libs, outdated>>

pack_vars == <<disk, pack_call>>

kube_vars == <<pod, wait_call>>

vars == <<charm_vars, channel_vars, rock_vars, github_vars, library_vars, pack_vars, kube_vars>>

----------------------------------------------------------------------------
(* Bounds *)

MaxBases == 2
MaxOdd == 1
MaxNameLen == 3
MaxTrackLen == 4
MaxSteps == 4

----------------------------------------------------------------------------
(* Python values *)

None == <<>>
Some(v) == <<v>>

DictHas(d, k) == \E i \in 1..Len(d) : d[i].key = k

DictGet(d, k) == d[CHOOSE i \in 1..Len(d) : d[i].key = k].value

DictSet(d, k, v) ==
    IF DictHas(d, k)
    THEN [i \in 1..Len(d) |-> IF d[i].key = k THEN [key |-> k, value |-> v] ELSE d[i]]
    ELSE Append(d, [key |-> k, value |-> v])

RECURSIVE DictFrom(_)
DictFrom(entries) ==
    IF entries = <<>> THEN <<>>
    ELSE LET n == Len(entries)
         IN DictSet(DictFrom(SubSeq(entries, 1, n - 1)), entries[n].key, entries[n].value)

IsSpace(c) == c \in {" ", "\n"}

----------------------------------------------------------------------------
(* CharmChannel *)

RISKS == {"edge", "beta", "candidate", "stable"}

RegexMatches(text) ==
    {k \in 1..Len(text) :
        /\ \A i \in 1..k : ~IsSpace(text[i])
        /\ k + 2 <= Len(text)
        /\ text[k + 1] = "/"
        /\ text[k + 2] \in RISKS
        /\ \/ Len(text) = k + 2
           \/ Len(text) = k + 3 /\ text[k + 3] = "\n"}

ChannelValid(text) == RegexMatches(text) # {}

ChannelTrack(text) ==
    LET k == CHOOSE m \in RegexMatches(text) : \A o \in RegexMatches(text) : o <= m
    IN SubSeq(text, 1, k)

ChannelRisk(text) ==
    LET k == CHOOSE m \in RegexMatches(text) : \A o \in RegexMatches(text) : o <= m
    IN text[k + 2]

risk_table_StableToEdge ==
    [r \in RISKS |->
        CASE r = "edge" -> "beta"
          [] r = "beta" -> "candidate"
          [] r = "candidate" -> "stable"
          [] r = "stable" -> "edge"]

risk_table ==
    [r \in RISKS |->
        CASE r = "edge" -> "beta"
          [] r = "beta" -> "candidate"
          [] r = "candidate" -> "stable"
          [] r = "stable" -> "stable"]

next_risk_channel(text) == ChannelTrack(text) \o <<"/", risk_table[ChannelRisk(text)]>>

----------------------------------------------------------------------------
(* release_status: the raw answer of `charmcraft status` as a tree *)

CharmResource(res) == [name |-> res.name, revision |-> res.revision, upstream_source |-> None]

ResourcesOrEmpty(resources) ==
    IF resources = None \/ resources[1] = <<>> THEN <<>> ELSE resources[1]

RevisionOrSentinel_Zero(revision) ==
    IF revision = None THEN 0 ELSE revision[1]

RevisionOrSentinel(revision) ==
    IF revision = None \/ revision[1] = 0 THEN -1 ELSE revision[1]

ChannelStatus(release, base_version, base_arch) ==
    LET resources == ResourcesOrEmpty(release.resources)
    IN [name |-> release.channel,
        status |-> release.status,
        base_version |-> base_version,
        base_arch |-> base_arch,
        revision |-> RevisionOrSentinel(release.revision),
        resources |-> [i \in 1..Len(resources) |-> CharmResource(resources[i])]]

BaseName(version, arch) == <<version, "/", arch>>

BaseStatus(mapping) ==
    LET base_version == mapping.base.channel
        base_arch == mapping.base.architecture
    IN [version |-> base_version,
        arch |-> base_arch,
        channels |-> DictFrom([i \in 1..Len(mapping.releases) |->
            [key |-> mapping.releases[i].channel,
             value |-> ChannelStatus(mapping.releases[i], base_version, base_arch)]])]

TrackStatus(track_mappings) ==
    [name |-> track_mappings.track,
     bases |-> DictFrom([i \in 1..Len(track_mappings.mappings) |->
        [key |-> BaseName(track_mappings.mappings[i].base.channel,
                          track_mappings.mappings[i].base.architecture),
         value |-> BaseStatus(track_mappings.mappings[i])]])]

release_status(charmcraft_status) ==
    DictFrom([i \in 1..Len(charmcraft_status) |->
        [key |-> charmcraft_status[i].track, value |-> TrackStatus(charmcraft_status[i])]])

----------------------------------------------------------------------------
(* The registry behind `charmcraft release`: a revision is a build for the *)
(* base whose channels hold it; releasing it to a channel sets that        *)
(* channel's revision and resources on that base, in the channel's track.  *)

ResourceArg(r) == <<"--resource=", r.name, ":", r.revision>>

HoldsRevision(mapping, uploads, revision) ==
    \/ \E i \in 1..Len(mapping.releases) : mapping.releases[i].revision = Some(revision)
    \/ \E u \in 1..Len(uploads) :
        /\ uploads[u].kind = "charm"
        /\ uploads[u].revision = revision
        /\ uploads[u].base = mapping.base.channel

KnownRevision(hub, uploads, channel, revision) ==
    \E t \in 1..Len(hub) :
        /\ ChannelValid(channel) /\ hub[t].track = ChannelTrack(channel)
        /\ \E m \in 1..Len(hub[t].mappings) :
            /\ HoldsRevision(hub[t].mappings[m], uploads, revision)
            /\ \E i \in 1..Len(hub[t].mappings[m].releases) :
                hub[t].mappings[m].releases[i].channel = channel

Released(hub, uploads, channel, revision, resources_args) ==
    [t \in 1..Len(hub) |->
        IF hub[t].track # ChannelTrack(channel) THEN hub[t]
        ELSE [hub[t] EXCEPT !.mappings =
            [m \in 1..Len(hub[t].mappings) |->
                IF ~HoldsRevision(hub[t].mappings[m], uploads, revision) THEN hub[t].mappings[m]
                ELSE [hub[t].mappings[m] EXCEPT !.releases =
                    [i \in 1..Len(hub[t].mappings[m].releases) |->
                        IF hub[t].mappings[m].releases[i].channel # channel
                        THEN hub[t].mappings[m].releases[i]
                        ELSE [hub[t].mappings[m].releases[i] EXCEPT
                                !.revision = Some(revision),
                                !.resources = Some([a \in 1..Len(resources_args) |->
                                    [name |-> resources_args[a][2],
                                     revision |-> resources_args[a][4]]])]]]]]]

----------------------------------------------------------------------------
(* Registry contents the commands are started on *)

Versions == <<"20.04", "22.04", "24.04", "26.04">>

ReleaseOrder == <<"stable", "candidate", "beta", "edge">>

OddKinds == {"closed", "unreleased", "absent"}

Profiles(n) ==
    LET positions == (1..n) \X RISKS
        odd == {S \in SUBSET positions : Cardinality(S) <= MaxOdd}
    IN UNION {{[k \in 1..n |-> [r \in RISKS |-> IF <<k, r>> \in S THEN f[<<k, r>>] ELSE "open"]] :
                f \in [S -> OddKinds]} : S \in odd}

RawRelease(track, k, i, kind) ==
    [status |-> IF kind = "closed" THEN "closed" ELSE "open",
     channel |-> track \o <<"/", ReleaseOrder[i]>>,
     revision |-> IF kind = "open" THEN Some(10 * k + i) ELSE None,
     resources |-> IF kind = "open"
                   THEN Some(<<[name |-> "image", revision |-> 10 * k + i]>>)
                   ELSE None]

RawMapping(track, k, profile) ==
    LET all == [i \in 1..4 |-> RawRelease(track, k, i, profile[ReleaseOrder[i]])]
        Present(release) ==
            \E i \in 1..4 : all[i] = release /\ profile[ReleaseOrder[i]] # "absent"
    IN [base |-> [name |-> "ubuntu", channel |-> Versions[k], architecture |-> "amd64"],
        releases |-> SelectSeq(all, Present)]

RawStatus(profiles) ==
    << [track |-> <<"t">>,
        mappings |-> [k \in 1..Len(profiles) |-> RawMapping(<<"t">>, k, profiles[k])]],
       [track |-> <<"u">>,
        mappings |-> <<RawMapping(<<"u">>, 4, [r \in RISKS |-> "open"])>>] >>

Registries ==
    {RawStatus(profiles) : profiles \in UNION {Profiles(n) : n \in 1..MaxBases}}

PromoteSources ==
    {<<"t", "/", r>> : r \in RISKS}
        \cup {<<"t">>, <<"t", "/", "wrong">>, <<"x", "/", "edge">>, <<"t", "/", "t", "/", "edge">>}

TrainTracks == {<<"t">>, <<"x">>, <<"t", "/", "edge">>, <<"t", " ">>}

----------------------------------------------------------------------------
(* Commands *)

StatusCall == [cmd |-> "status", channel |-> <<>>, revision |-> 0, resources |-> <<>>]

ReleaseCall(channel, revision, resources_args) ==
    [cmd |-> "release", channel |-> channel, revision |-> revision,
     resources |-> resources_args]

Notice(kind, base, channel, revision) ==
    [kind |-> kind, base |-> base, channel |-> channel, revision |-> revision]

\* a printed command line: the notice with the --resource arguments
CommandLine(kind, base, channel, revision, resources_args) ==
    [kind |-> kind, base |-> base, channel |-> channel, revision |-> revision,
     resources |-> resources_args]

Raise(exception) ==
    /\ err' = exception
    /\ pc' = "failed"

NoChannel ==
    /\ charm_channel = <<>>
    /\ first = <<>>
    /\ steps = 0
    /\ outcome = [op |-> "none", raised |-> "none", value |-> <<>>]

NoRock ==
    /\ folders = <<>>
    /\ tags_per_version = <<>>
    /\ manifest = [version |-> 0, upload |-> <<>>]
    /\ rock_call = [op |-> "none", raised |-> "none", args |-> <<>>, clock |-> <<>>]
    /\ oci = [requests |-> <<>>, tags |-> <<>>]

NoGithub ==
    /\ github = [repos |-> <<>>, runs |-> <<>>]
    /\ workflow_result = [name |-> <<>>, status |-> "none", url |-> None]
    /\ ci_status = <<>>
    /\ github_call = [op |-> "none", raised |-> "none"]

NotChecking ==
    [pc |-> "idle", raised |-> "none", value |-> <<>>, minor |-> FALSE, major |-> FALSE,
     at |-> 0]

NoLibraries ==
    /\ charm_libs = [local |-> None, charmhub |-> <<>>]
    /\ outdated = NotChecking

NotPacking == [pc |-> "idle", filename |-> "", raised |-> "none", found |-> <<>>]

NoPack ==
    /\ disk = [charm |-> <<>>, temp |-> <<>>]
    /\ pack_call = NotPacking

NotWaiting == [op |-> "none", pc |-> "idle", polls |-> 0, raised |-> "none", calls |-> <<>>]

NoKube ==
    /\ pod = [phase |-> "none"]
    /\ wait_call = NotWaiting

NoTools ==
    /\ NoLibraries
    /\ NoPack
    /\ NoKube

Init ==
    /\ NoChannel
    /\ NoRock
    /\ NoGithub
    /\ NoTools
    /\ charmhub \in Registries
    /\ at_start = charmhub
    /\ pc = "idle"
    /\ hops = <<>>
    /\ source = <<>>
    /\ target = <<>>
    /\ dry_run = FALSE
    /\ track_status = [name |-> <<>>, bases |-> <<>>]
    /\ idx = 0
    /\ calls = <<>>
    /\ reads = <<>>
    /\ console = <<>>
    /\ err = "none"
    /\ files = [path_exists |-> FALSE, metadata |-> None, libraries |-> None]
    /\ release_to = <<>>
    /\ uploaded = [revision |-> 0, resources |-> <<>>]
    /\ libraries = <<>>
    /\ store = <<>>

TrainSources_EdgeFirst(track) ==
    <<track \o <<"/", "edge">>, track \o <<"/", "beta">>, track \o <<"/", "candidate">>>>

TrainSources(track) ==
    <<track \o <<"/", "candidate">>, track \o <<"/", "beta">>, track \o <<"/", "edge">>>>

promote_train(track, flag) ==
    /\ pc = "idle"
    /\ dry_run' = flag
    /\ IF \E i \in 1..Len(track) : track[i] = "/"
       THEN /\ Raise("InputError")
            /\ UNCHANGED <<hops, console>>
       ELSE /\ console' = Append(console, Notice("train", <<>>, <<>>, 0))
            /\ hops' = TrainSources(track)
            /\ pc' = "hop"
            /\ UNCHANGED err
    /\ UNCHANGED <<charmhub, at_start, source, target, track_status, idx, calls, reads>>
    /\ UNCHANGED <<store, upload_vars>>
    /\ UNCHANGED <<channel_vars, rock_vars, github_vars,
                 library_vars, pack_vars, kube_vars>>

promote_command(channel, flag) ==
    /\ pc = "idle"
    /\ dry_run' = flag
    /\ hops' = <<channel>>
    /\ pc' = "hop"
    /\ UNCHANGED <<charmhub, at_start, source, target, track_status, idx, calls, reads,
                   console, err>>
    /\ UNCHANGED <<store, upload_vars>>
    /\ UNCHANGED <<channel_vars, rock_vars, github_vars,
                 library_vars, pack_vars, kube_vars>>

NoLowerRisk_Never(channel) == FALSE

NoLowerRisk(channel) == ChannelRisk(channel) = "stable"

promote ==
    /\ pc = "hop"
    /\ LET channel == Head(hops)
       IN IF ~ChannelValid(channel)
          THEN /\ Raise("InputError")
               /\ UNCHANGED <<source, target, track_status, idx, calls, reads>>
          ELSE IF NoLowerRisk(channel)
          THEN /\ Raise("InputError")
               /\ UNCHANGED <<source, target, track_status, idx, calls, reads>>
          ELSE LET releases == release_status(charmhub)
               IN /\ source' = channel
                  /\ target' = next_risk_channel(channel)
                  /\ calls' = Append(calls, StatusCall)
                  /\ reads' = Append(reads, charmhub)
                  /\ IF ~DictHas(releases, ChannelTrack(channel))
                     THEN /\ Raise("KeyError")
                          /\ UNCHANGED <<track_status, idx>>
                     ELSE /\ track_status' = DictGet(releases, ChannelTrack(channel))
                          /\ idx' = 1
                          /\ pc' = "loop"
                          /\ UNCHANGED err
    /\ UNCHANGED <<charmhub, at_start, hops, dry_run, console>>
    /\ UNCHANGED <<store, upload_vars>>
    /\ UNCHANGED <<channel_vars, rock_vars, github_vars,
                 library_vars, pack_vars, kube_vars>>

OnlyPrint_Never(flag) == FALSE

OnlyPrint(flag) == flag

ChannelLookup_Default(channels, channel) ==
    IF DictHas(channels, channel) THEN Some(DictGet(channels, channel))
    ELSE Some([name |-> channel, status |-> "closed", base_version |-> "", base_arch |-> "",
               revision |-> -1, resources |-> <<>>])

ChannelLookup(channels, channel) ==
    IF DictHas(channels, channel) THEN Some(DictGet(channels, channel)) ELSE None

BothOpen_TargetOnly(source_status, target_status) == target_status.status = "open"

BothOpen_SourceOnly(source_status, target_status) == source_status.status = "open"

BothOpen(source_status, target_status) ==
    source_status.status = "open" /\ target_status.status = "open"

charmcraft_promote(accepted) ==
    /\ pc = "loop"
    /\ idx <= Len(track_status.bases)
    /\ LET base == track_status.bases[idx].key
           base_status == track_status.bases[idx].value
           source_lookup == ChannelLookup(base_status.channels, source)
           target_lookup == ChannelLookup(base_status.channels, target)
       IN IF source_lookup = None \/ target_lookup = None
          THEN /\ Raise("KeyError")
               /\ UNCHANGED <<charmhub, idx, calls, console>>
          ELSE LET source_status == source_lookup[1]
                   target_status == target_lookup[1]
                   resources_args == [i \in 1..Len(source_status.resources) |->
                                        ResourceArg(source_status.resources[i])]
               IN IF BothOpen(source_status, target_status)
                  THEN IF OnlyPrint(dry_run)
                       THEN /\ console' = console \o
                                <<CommandLine("dry run release", base, target, source_status.revision,
                                              resources_args),
                                  Notice("dry run promoted", base, target, source_status.revision)>>
                            /\ idx' = idx + 1
                            /\ UNCHANGED <<charmhub, calls, pc, err>>
                       ELSE /\ calls' = Append(calls,
                                ReleaseCall(target, source_status.revision, resources_args))
                            /\ IF accepted /\ KnownRevision(charmhub, store, target, source_status.revision)
                               THEN /\ charmhub' = Released(charmhub, store, target,
                                                      source_status.revision, resources_args)
                                    /\ console' = Append(console,
                                        Notice("promoted", base, target, source_status.revision))
                                    /\ idx' = idx + 1
                                    /\ UNCHANGED <<pc, err>>
                               ELSE /\ Raise("ErrorReturnCode")
                                    /\ UNCHANGED <<charmhub, idx, console>>
                  ELSE /\ console' = Append(console, Notice("skip", base, target, 0))
                       /\ idx' = idx + 1
                       /\ UNCHANGED <<charmhub, calls, pc, err>>
    /\ UNCHANGED <<at_start, hops, source, target, dry_run, track_status, reads>>
    /\ UNCHANGED <<store, upload_vars>>
    /\ UNCHANGED <<channel_vars, rock_vars, github_vars,
                 library_vars, pack_vars, kube_vars>>

promote_return ==
    /\ pc = "loop"
    /\ idx > Len(track_status.bases)
    /\ hops' = Tail(hops)
    /\ pc' = IF Tail(hops) = <<>> THEN "done" ELSE "hop"
    /\ UNCHANGED <<charmhub, at_start, source, target, dry_run, track_status, idx, calls,
                   reads, console, err>>
    /\ UNCHANGED <<store, upload_vars>>
    /\ UNCHANGED <<channel_vars, rock_vars, github_vars,
                 library_vars, pack_vars, kube_vars>>

----------------------------------------------------------------------------
(* charm release: upload the charm file and its resources, then release *)

CharmName == <<"c">>

FreshRevision(uploads) == 100 + Len(uploads)

Digits == {"11", "7"}

IntOf(digits) == IF digits = "11" THEN 11 ELSE 7

ExistingPackage == "Revision of the existing package is: "

MessageRevision(message) ==
    IF /\ Len(message) >= 2
       /\ message[Len(message)] \in Digits
       /\ message[Len(message) - 1] = ExistingPackage
       /\ \A i \in 1..(Len(message) - 2) : message[i] # "\n"
    THEN Some(IntOf(message[Len(message)]))
    ELSE None

ExistingRevision(stdout) ==
    IF ~stdout.json \/ stdout.errors = None THEN None
    ELSE LET errors == stdout.errors[1]
         IN IF Len(errors) # 1 THEN None
            ELSE IF errors[1].code # Some("review-error") THEN None
            ELSE MessageRevision(IF errors[1].message = None THEN <<>> ELSE errors[1].message[1])

UploadRevision(answer, uploads) ==
    IF answer.ok THEN Some(FreshRevision(uploads)) ELSE ExistingRevision(answer.stdout)

NoStdout == [json |-> FALSE, errors |-> None]

\* the exception that leaves upload when the rejection is not recognised:
\* the bare raise under `except (JSONDecodeError, KeyError)` re-raises the
\* exception of json.loads(...)["errors"], the ones under `else` the tool's
Reraised(stdout) ==
    IF ~stdout.json THEN "JSONDecodeError"
    ELSE IF stdout.errors = None THEN "KeyError"
    ELSE "ErrorReturnCode"

ReviewError(message) == [code |-> Some("review-error"), message |-> message]

Rejected(errors) == [ok |-> FALSE, stdout |-> [json |-> TRUE, errors |-> errors]]

UploadOutcomes ==
    {[ok |-> TRUE, stdout |-> NoStdout],
     [ok |-> FALSE, stdout |-> NoStdout],
     Rejected(None),
     Rejected(Some(<<>>)),
     Rejected(Some(<<ReviewError(Some(<<"Upload failed. ", ExistingPackage, "11">>))>>)),
     Rejected(Some(<<ReviewError(Some(<<"Upload failed. ", ExistingPackage, "11">>)),
                     ReviewError(Some(<<"Upload failed. ", ExistingPackage, "11">>))>>)),
     Rejected(Some(<<[code |-> Some("unauthorized"),
                      message |-> Some(<<ExistingPackage, "11">>)]>>)),
     Rejected(Some(<<[code |-> None, message |-> Some(<<ExistingPackage, "11">>)]>>)),
     Rejected(Some(<<ReviewError(None)>>)),
     Rejected(Some(<<ReviewError(Some(<<"Upload failed. ">>))>>)),
     Rejected(Some(<<ReviewError(Some(<<"Upload failed.", "\n", ExistingPackage, "11">>))>>)),
     Rejected(Some(<<ReviewError(Some(<<ExistingPackage, "11", "\n">>))>>))}

Metadatas ==
    {None,
     Some([name |-> CharmName, resources |-> None]),
     Some([name |-> CharmName,
           resources |-> Some(<<[key |-> "image", value |-> [upstream_source |-> "ubuntu/image"]]>>)])}

MetadataResources(metadata) ==
    IF metadata.resources = None THEN <<>> ELSE metadata.resources[1]

UploadCall(cmd, resource) ==
    [cmd |-> cmd, channel |-> <<>>, revision |-> 0, resources |-> resource]

release_command(charm_name, exists, metadata, channel, flag) ==
    /\ pc = "idle"
    /\ dry_run' = flag
    /\ files' = [path_exists |-> exists, metadata |-> metadata, libraries |-> None]
    /\ release_to' = channel
    /\ IF charm_name = None /\ metadata = None
       THEN Raise("InputError")
       ELSE pc' = "upload" /\ UNCHANGED err
    /\ UNCHANGED <<charmhub, at_start, store, idx, calls, console, promote_vars,
                   uploaded, libraries>>
    /\ UNCHANGED <<channel_vars, rock_vars, github_vars,
                 library_vars, pack_vars, kube_vars>>

PathExists_Always(at) == TRUE

PathExists(at) == at.path_exists

upload(answer) ==
    /\ pc = "upload"
    /\ IF ~PathExists(files)
       THEN /\ Raise("InputError")
            /\ UNCHANGED <<store, idx, calls, console, uploaded>>
       ELSE IF OnlyPrint(dry_run)
       THEN /\ console' = Append(console, Notice("dry_run upload", <<>>, <<>>, 0))
            /\ uploaded' = [revision |-> 0, resources |-> <<>>]
            /\ pc' = "release"
            /\ UNCHANGED <<store, idx, calls, err>>
       ELSE LET revision == UploadRevision(answer, store)
            IN /\ calls' = Append(calls, UploadCall("upload", <<>>))
               /\ IF revision = None
                  THEN /\ console' = Append(console, Notice("stderr", <<>>, <<>>, 0))
                       /\ Raise(Reraised(answer.stdout))
                       /\ UNCHANGED <<store, idx, uploaded>>
                  ELSE LET told == Append(console,
                                Notice(IF answer.ok THEN "uploaded" ELSE "already uploaded",
                                       <<>>, <<>>, revision[1]))
                       IN /\ store' = IF answer.ok
                                      THEN Append(store, [kind |-> "charm", revision |-> revision[1],
                                                          base |-> "20.04"])
                                      ELSE store
                          /\ IF files.metadata = None
                             THEN /\ console' = told
                                  /\ Raise("InputError")
                                  /\ UNCHANGED <<idx, uploaded>>
                             ELSE /\ uploaded' = [revision |-> revision[1], resources |-> <<>>]
                                  /\ idx' = 1
                                  /\ UNCHANGED err
                                  /\ IF MetadataResources(files.metadata[1]) = <<>>
                                     THEN /\ console' = Append(told,
                                               Notice("charm uploaded", <<>>, <<>>, revision[1]))
                                          /\ pc' = "release"
                                     ELSE /\ console' = told
                                          /\ pc' = "upload_resource"
    /\ UNCHANGED <<charmhub, at_start, dry_run, promote_vars, files, release_to, libraries>>
    /\ UNCHANGED <<channel_vars, rock_vars, github_vars,
                 library_vars, pack_vars, kube_vars>>

upload_resource(ok) ==
    /\ pc = "upload_resource"
    /\ LET charm_resources == MetadataResources(files.metadata[1])
           resource_name == charm_resources[idx].key
           upstream_source == charm_resources[idx].value.upstream_source
           resource == [name |-> resource_name, revision |-> FreshRevision(store),
                        upstream_source |-> Some(upstream_source)]
       IN /\ calls' = Append(calls, UploadCall("upload-resource",
                                <<resource_name, "docker://", upstream_source>>))
          /\ IF ~ok
             THEN /\ Raise("ErrorReturnCode")
                  /\ UNCHANGED <<store, idx, console, uploaded>>
             ELSE /\ store' = Append(store, [kind |-> "resource", revision |-> resource.revision,
                                             base |-> resource_name])
                  /\ uploaded' = [uploaded EXCEPT !.resources = Append(@, resource)]
                  /\ idx' = idx + 1
                  /\ UNCHANGED err
                  /\ IF idx = Len(charm_resources)
                     THEN /\ console' = console \o
                                <<Notice("resource uploaded", <<>>, <<>>, resource.revision),
                                  Notice("charm uploaded", <<>>, <<>>, uploaded.revision)>>
                          /\ pc' = "release"
                     ELSE /\ console' = Append(console,
                                Notice("resource uploaded", <<>>, <<>>, resource.revision))
                          /\ UNCHANGED pc
    /\ UNCHANGED <<charmhub, at_start, dry_run, promote_vars, files, release_to, libraries>>
    /\ UNCHANGED <<channel_vars, rock_vars, github_vars,
                 library_vars, pack_vars, kube_vars>>

charmcraft_release(accepted) ==
    /\ pc = "release"
    /\ LET resources == [i \in 1..Len(uploaded.resources) |->
                            <<uploaded.resources[i].name, ":", uploaded.resources[i].revision>>]
           resources_args == [i \in 1..Len(resources) |-> <<"--resource=">> \o resources[i]]
       IN IF OnlyPrint(dry_run)
          THEN /\ console' = Append(console,
                    Notice("dry run release", <<>>, release_to, uploaded.revision))
               /\ pc' = "done"
               /\ UNCHANGED <<charmhub, calls, err>>
          ELSE /\ calls' = Append(calls, ReleaseCall(release_to, uploaded.revision, resources_args))
               /\ IF accepted /\ KnownRevision(charmhub, store, release_to, uploaded.revision)
                  THEN /\ charmhub' = Released(charmhub, store, release_to, uploaded.revision,
                                               resources_args)
                       /\ console' = Append(console,
                            Notice("released", <<>>, release_to, uploaded.revision))
                       /\ pc' = "done"
                       /\ UNCHANGED err
                  ELSE /\ Raise("ErrorReturnCode")
                       /\ UNCHANGED <<charmhub, console>>
    /\ UNCHANGED <<at_start, store, dry_run, idx, promote_vars, upload_vars>>
    /\ UNCHANGED <<channel_vars, rock_vars, github_vars,
                 library_vars, pack_vars, kube_vars>>

----------------------------------------------------------------------------
(* charm libraries publish *)

Library(charm_name, library_name, api, patch) ==
    [charm_name |-> charm_name, library_name |-> library_name, api |-> api, patch |-> patch]

Replace(text, old, new) == [i \in 1..Len(text) |-> IF text[i] = old THEN new ELSE text[i]]

full_name(library) ==
    <<"charms.">> \o Replace(library.charm_name, "-", "_")
        \o <<".v", library.api, ".", library.library_name>>

LocalLibraries ==
    {None,
     Some(<<Library(<<"other">>, "ingress", 1, 4)>>),
     Some(<<Library(CharmName, "catalogue", 0, 2)>>),
     Some(<<Library(CharmName, "catalogue", 0, 2), Library(<<"other">>, "ingress", 1, 4),
            Library(CharmName, "tracing", 2, 0)>>)}

AlreadyUpdated == "is already updated"

PublishErrors ==
    {"is the same than in Charmhub but content is different",
     "LIBPATCH number was incorrectly incremented",
     "has a wrong LIBPATCH number, it's too high"}

PublishResults ==
    {[error_message |-> None],
     [error_message |-> Some(<<"Library ", AlreadyUpdated, " in Charmhub.">>)],
     [error_message |-> Some(<<"Library ", "LIBPATCH number was incorrectly incremented", ".">>)],
     [error_message |-> Some(<<"is the same than in Charmhub but content is different">>)],
     [error_message |-> Some(<<"Library ", "has a wrong LIBPATCH number, it's too high">>)]}

Contains(text, chunk) == \E i \in 1..Len(text) : text[i] = chunk

publish(metadata, local, flag) ==
    /\ pc = "idle"
    /\ dry_run' = flag
    /\ files' = [path_exists |-> FALSE, metadata |-> metadata, libraries |-> local]
    /\ IF metadata = None \/ local = None
       THEN /\ Raise("InputError")
            /\ UNCHANGED <<idx, console, libraries>>
       ELSE LET owned == SelectSeq(local[1], LAMBDA v : v.charm_name = metadata[1].name)
            IN /\ libraries' = owned
               /\ idx' = 1
               /\ UNCHANGED err
               /\ IF owned = <<>>
                  THEN /\ console' = Append(console, Notice("owns no library", <<>>, <<>>, 0))
                       /\ pc' = "done"
                  ELSE /\ pc' = "publish_lib"
                       /\ UNCHANGED console
    /\ UNCHANGED <<charmhub, at_start, store, calls, promote_vars, release_to, uploaded>>
    /\ UNCHANGED <<channel_vars, rock_vars, github_vars,
                 library_vars, pack_vars, kube_vars>>

publish_charm_libraries(result) ==
    /\ pc = "publish_lib"
    /\ LET library == libraries[idx]
           last == idx = Len(libraries)
           error_message == IF result.error_message = None THEN <<>>
                            ELSE result.error_message[1]
       IN IF OnlyPrint(dry_run)
          THEN /\ console' = console \o
                    <<Notice("dry_run publish-lib", <<>>, full_name(library), 0),
                      Notice("dry_run published", <<>>, full_name(library), 0)>>
               /\ idx' = idx + 1
               /\ pc' = IF last THEN "done" ELSE "publish_lib"
               /\ UNCHANGED <<store, calls, err>>
          ELSE /\ calls' = Append(calls, UploadCall("publish-lib", full_name(library)))
               /\ IF error_message # <<>> /\ Contains(error_message, AlreadyUpdated)
                  THEN /\ console' = Append(console,
                            Notice("already updated", <<>>, full_name(library), 0))
                       /\ pc' = "done"
                       /\ UNCHANGED <<store, idx, err>>
                  ELSE IF error_message # <<>>
                          /\ \E e \in PublishErrors : Contains(error_message, e)
                  THEN /\ Raise("CharmhubError")
                       /\ UNCHANGED <<store, idx, console>>
                  ELSE /\ store' = IF error_message = <<>>
                                   THEN Append(store, [kind |-> "library", revision |-> library.patch,
                                                       base |-> full_name(library)])
                                   ELSE store
                       /\ console' = Append(console,
                            Notice("published", <<>>, full_name(library), 0))
                       /\ idx' = idx + 1
                       /\ pc' = IF last THEN "done" ELSE "publish_lib"
                       /\ UNCHANGED err
    /\ UNCHANGED <<charmhub, at_start, dry_run, promote_vars, upload_vars>>
    /\ UNCHANGED <<channel_vars, rock_vars, github_vars,
                 library_vars, pack_vars, kube_vars>>

Next ==
    \/ \E track \in TrainTracks, flag \in BOOLEAN : promote_train(track, flag)
    \/ \E channel \in PromoteSources, flag \in BOOLEAN : promote_command(channel, flag)
    \/ promote
    \/ \E accepted \in BOOLEAN : charmcraft_promote(accepted)
    \/ promote_return
    \/ \E charm_name \in {None, Some(CharmName)}, exists \in BOOLEAN, metadata \in Metadatas,
          flag \in BOOLEAN : release_command(charm_name, exists, metadata, <<"t", "/", "edge">>, flag)
    \/ \E answer \in UploadOutcomes : upload(answer)
    \/ \E ok \in BOOLEAN : upload_resource(ok)
    \/ \E accepted \in BOOLEAN : charmcraft_release(accepted)
    \/ \E metadata \in Metadatas, local \in LocalLibraries, flag \in BOOLEAN :
          publish(metadata, local, flag)
    \/ \E result \in PublishResults : publish_charm_libraries(result)

Spec == Init /\ [][Next]_vars

----------------------------------------------------------------------------
(* CharmChannel objects on their own: construct one, read its properties,  *)
(* follow next_risk_channel.                                               *)

Chunks == {"t", "/", " ", "\n", "edge", "beta", "candidate", "stable", "wrong"}

RECURSIVE Texts(_, _)
Texts(alphabet, n) ==
    IF n = 0 THEN {<<>>}
    ELSE LET shorter == Texts(alphabet, n - 1)
         IN shorter \cup {Append(text, c) : text \in {x \in shorter : Len(x) = n - 1},
                                              c \in alphabet}

ChannelNames ==
    Texts(Chunks, MaxNameLen)
        \cup {prefix \o <<"/", r>> : prefix \in Texts({"t", "/"}, MaxTrackLen),
                                     r \in RISKS \cup {"wrong"}}

NoCommand ==
    /\ charmhub = <<>>
    /\ at_start = <<>>
    /\ pc = "idle"
    /\ hops = <<>>
    /\ source = <<>>
    /\ target = <<>>
    /\ dry_run = FALSE
    /\ track_status = [name |-> <<>>, bases |-> <<>>]
    /\ idx = 0
    /\ calls = <<>>
    /\ reads = <<>>
    /\ console = <<>>
    /\ err = "none"
    /\ files = [path_exists |-> FALSE, metadata |-> None, libraries |-> None]
    /\ release_to = <<>>
    /\ uploaded = [revision |-> 0, resources |-> <<>>]
    /\ libraries = <<>>
    /\ store = <<>>

InitChannel ==
    /\ NoCommand
    /\ NoRock
    /\ NoGithub
    /\ NoTools
    /\ charm_channel \in ChannelNames
    /\ first = charm_channel
    /\ steps = 0
    /\ outcome = [op |-> "CharmChannel", raised |-> "none", value |-> charm_channel]

read_track ==
    /\ outcome' = IF ChannelValid(charm_channel)
                  THEN [op |-> "track", raised |-> "none", value |-> ChannelTrack(charm_channel)]
                  ELSE [op |-> "track", raised |-> "InputError", value |-> <<>>]
    /\ UNCHANGED <<charm_channel, first, steps>>
    /\ UNCHANGED <<charm_vars, rock_vars, github_vars,
                 library_vars, pack_vars, kube_vars>>

read_risk ==
    /\ outcome' = IF ChannelValid(charm_channel)
                  THEN [op |-> "risk", raised |-> "none", value |-> <<ChannelRisk(charm_channel)>>]
                  ELSE [op |-> "risk", raised |-> "InputError", value |-> <<>>]
    /\ UNCHANGED <<charm_channel, first, steps>>
    /\ UNCHANGED <<charm_vars, rock_vars, github_vars,
                 library_vars, pack_vars, kube_vars>>

follow_next_risk_channel ==
    /\ steps < MaxSteps
    /\ IF ChannelValid(charm_channel)
       THEN /\ charm_channel' = next_risk_channel(charm_channel)
            /\ steps' = steps + 1
            /\ outcome' = [op |-> "next_risk_channel", raised |-> "none",
                           value |-> next_risk_channel(charm_channel)]
       ELSE /\ outcome' = [op |-> "next_risk_channel", raised |-> "InputError", value |-> <<>>]
            /\ UNCHANGED <<charm_channel, steps>>
    /\ UNCHANGED first
    /\ UNCHANGED <<charm_vars, rock_vars, github_vars,
                 library_vars, pack_vars, kube_vars>>

NextChannel ==
    \/ read_track
    \/ read_risk
    \/ follow_next_risk_channel

SpecChannel == InitChannel /\ [][NextChannel]_vars

----------------------------------------------------------------------------
(* Reading the raw registry answer directly, for the properties below *)

HubMappings(raw, track) ==
    IF \E t \in 1..Len(raw) : raw[t].track = track
    THEN raw[CHOOSE t \in 1..Len(raw) : raw[t].track = track].mappings
    ELSE <<>>

HubHas(mapping, channel) ==
    \E i \in 1..Len(mapping.releases) : mapping.releases[i].channel = channel

HubEntry(mapping, channel) ==
    mapping.releases[CHOOSE i \in 1..Len(mapping.releases) :
                        mapping.releases[i].channel = channel]

HubOpen(mapping, channel) ==
    HubHas(mapping, channel) /\ HubEntry(mapping, channel).status = "open"

HubRevision(mapping, channel) ==
    IF HubEntry(mapping, channel).revision = None THEN -1
    ELSE HubEntry(mapping, channel).revision[1]

HubResourceArgs(mapping, channel) ==
    LET resources == HubEntry(mapping, channel).resources
    IN IF resources = None THEN <<>>
       ELSE [i \in 1..Len(resources[1]) |->
                <<"--resource=", resources[1][i].name, ":", resources[1][i].revision>>]

LastRead == reads[Len(reads)]

HopMappings == HubMappings(LastRead, ChannelTrack(source))

HopCalls ==
    LET last == CHOOSE i \in 1..Len(calls) :
                    calls[i].cmd = "status" /\ \A j \in (i + 1)..Len(calls) : calls[j].cmd # "status"
    IN SubSeq(calls, last + 1, Len(calls))

ReleaseCalls == SelectSeq(calls, LAMBDA c : c.cmd = "release")

IsTrain == console # <<>> /\ console[1].kind = "train"

RECURSIVE ExpectedCalls(_)
ExpectedCalls(k) ==
    IF k = 0 THEN <<>>
    ELSE ExpectedCalls(k - 1) \o
         (IF HubOpen(HopMappings[k], source) /\ HubOpen(HopMappings[k], target)
          THEN <<[cmd |-> "release", channel |-> target,
                  revision |-> HubRevision(HopMappings[k], source),
                  resources |-> HubResourceArgs(HopMappings[k], source)]>>
          ELSE <<>>)

----------------------------------------------------------------------------
(* C1: in a promote that is not a dry run, the release calls made for the  *)
(* bases visited so far are, in the order of the bases, exactly one call   *)
(* per base whose source and target channel are both open (to the target   *)
(* channel, with the source's revision and one --resource argument per     *)
(* source resource), so a finished walk has made as many calls as there    *)
(* are such bases; on a base where a channel is closed the step makes no   *)
(* call, prints a skip notice and raises nothing.                          *)
C1_PromoteReleasesOpenBases ==
    /\ [](pc = "loop" /\ ~dry_run =>
            /\ HopCalls = ExpectedCalls(idx - 1)
            /\ idx > Len(track_status.bases) =>
                Len(HopCalls) = Cardinality({k \in 1..Len(HopMappings) :
                    HubOpen(HopMappings[k], source) /\ HubOpen(HopMappings[k], target)}))
    /\ [][(/\ pc = "loop" /\ ~dry_run /\ idx <= Len(track_status.bases)
           /\ HubHas(HopMappings[idx], source) /\ HubHas(HopMappings[idx], target)
           /\ ~(HubOpen(HopMappings[idx], source) /\ HubOpen(HopMappings[idx], target)))
          => /\ calls' = calls
             /\ console' = Append(console, Notice("skip", track_status.bases[idx].key, target, 0))
             /\ err' = "none"
             /\ pc' = "loop"
             /\ idx' = idx + 1]_vars

C1_Witness ==
    /\ pc = "loop" /\ ~dry_run /\ idx = 3 /\ Len(track_status.bases) = 2
    /\ Len(HopCalls) = 1
    /\ console[Len(console)].kind = "skip"

(* C2 as stated: the train promotes edge first, then beta, then candidate. *)
C2_TrainEdgeFirst ==
    IsTrain /\ pc = "loop" =>
        ChannelRisk(source) = <<"edge", "beta", "candidate">>[Len(reads)]

(* C2, amended: the train promotes candidate to stable first, then beta to *)
(* candidate, then edge to beta.                                           *)
C2_TrainCandidateFirst ==
    IsTrain /\ pc \in {"loop", "done"} =>
        /\ Len(reads) \in 1..3
        /\ ChannelRisk(source) = <<"candidate", "beta", "edge">>[Len(reads)]
        /\ ChannelRisk(target) = <<"stable", "candidate", "beta">>[Len(reads)]
        /\ pc = "done" => Len(reads) = 3

C2_Witness == IsTrain /\ pc = "done" /\ Len(reads) = 3 /\ Len(ReleaseCalls) >= 3

AllOpen(mapping) == \A r \in RISKS : HubOpen(mapping, <<"t", "/", r>>)

(* C3: after a train that is not a dry run, on every base whose four       *)
(* channels were all open, stable holds what candidate held before,        *)
(* candidate what beta held, beta what edge held, and edge is unchanged.   *)
C3_TrainMovesOneLevel ==
    (pc = "done" /\ IsTrain /\ ~dry_run /\ ChannelTrack(source) = <<"t">>) =>
        \A k \in 1..Len(HubMappings(at_start, <<"t">>)) :
            LET before == HubMappings(at_start, <<"t">>)[k]
                after == HubMappings(charmhub, <<"t">>)[k]
            IN AllOpen(before) =>
                /\ HubEntry(after, <<"t", "/", "stable">>).revision
                    = HubEntry(before, <<"t", "/", "candidate">>).revision
                /\ HubEntry(after, <<"t", "/", "candidate">>).revision
                    = HubEntry(before, <<"t", "/", "beta">>).revision
                /\ HubEntry(after, <<"t", "/", "beta">>).revision
                    = HubEntry(before, <<"t", "/", "edge">>).revision
                /\ HubEntry(after, <<"t", "/", "edge">>).revision
                    = HubEntry(before, <<"t", "/", "edge">>).revision

C3_Witness ==
    /\ pc = "done" /\ IsTrain /\ ~dry_run
    /\ Len(HubMappings(at_start, <<"t">>)) = 2
    /\ \A k \in 1..2 : AllOpen(HubMappings(at_start, <<"t">>)[k])
    /\ Len(ReleaseCalls) = 6
    /\ charmhub # at_start

(* C4: a promote whose source channel has risk stable ends with InputError *)
(* before the status query or any release call is made.                    *)
C4_StableSourceIsInputError ==
    (hops # <<>> /\ ChannelValid(Head(hops)) /\ ChannelRisk(Head(hops)) = "stable") =>
        /\ pc \in {"hop", "failed"}
        /\ calls = <<>>
        /\ reads = <<>>
        /\ charmhub = at_start
        /\ pc = "failed" => err = "InputError"

C4_Witness ==
    /\ pc = "failed" /\ err = "InputError"
    /\ hops = << <<"t", "/", "stable">> >>
    /\ calls = <<>>

(* C5: on a base that has no entry for the source or for the target        *)
(* channel the promote ends with a KeyError, printing no skip and making   *)
(* no call for that base; on a base that has both entries and a closed one *)
(* among them it prints a skip and raises nothing.                         *)
C5_MissingChannelIsLookupFailure ==
    [][(pc = "loop" /\ idx <= Len(track_status.bases)) =>
        IF ~HubHas(HopMappings[idx], source) \/ ~HubHas(HopMappings[idx], target)
        THEN /\ err' = "KeyError"
             /\ pc' = "failed"
             /\ console' = console
             /\ calls' = calls
             /\ charmhub' = charmhub
        ELSE ~(HubOpen(HopMappings[idx], source) /\ HubOpen(HopMappings[idx], target)) =>
             /\ err' = "none"
             /\ pc' = "loop"
             /\ console'[Len(console')].kind = "skip"
             /\ Len(console') = Len(console) + 1]_vars

C5_Witness ==
    /\ pc = "failed" /\ err = "KeyError"
    /\ idx = 2 /\ Len(track_status.bases) = 2
    /\ HubHas(HopMappings[idx], source) /\ ~HubHas(HopMappings[idx], target)

MutatingCalls == {"upload", "upload-resource", "release", "publish-lib"}

(* C6: in a dry run no upload, upload-resource, release or publish-lib     *)
(* call is made and the registry stays as it was; so every hop of a dry    *)
(* run train reads the status the first hop read.                          *)
C6_DryRunChangesNothing ==
    dry_run =>
        /\ \A i \in 1..Len(calls) : calls[i].cmd \notin MutatingCalls
        /\ charmhub = at_start
        /\ store = <<>>
        /\ \A i \in 1..Len(reads) : reads[i] = reads[1] /\ reads[i] = at_start

C6_Witness ==
    /\ dry_run /\ IsTrain /\ pc = "done"
    /\ Len(reads) = 3
    /\ Len(SelectSeq(console, LAMBDA n : n.kind = "dry run release")) = 6

TrainHops ==
    {<<"edge", "beta">>, <<"beta", "candidate">>, <<"candidate", "stable">>}

HopOpen(mapping, hop) ==
    HubOpen(mapping, <<"t", "/", hop[1]>>) /\ HubOpen(mapping, <<"t", "/", hop[2]>>)

StartMappings == HubMappings(at_start, <<"t">>)

StableClosedOnly(mapping) ==
    /\ \A r \in RISKS : HubHas(mapping, <<"t", "/", r>>)
    /\ \A r \in RISKS \ {"stable"} : HubOpen(mapping, <<"t", "/", r>>)
    /\ ~HubOpen(mapping, <<"t", "/", "stable">>)

TwoBaseScenario ==
    /\ Len(StartMappings) = 2
    /\ \E a, b \in 1..2 : a # b /\ AllOpen(StartMappings[a]) /\ StableClosedOnly(StartMappings[b])

TrainFinished == pc = "done" /\ IsTrain /\ ~dry_run /\ ChannelTrack(source) = <<"t">>

(* C7 as stated: with base A all open and base B open but for a closed     *)
(* stable, a finished train has made (open hops) x (all-open bases)        *)
(* release calls, the open hops being the hops open on some base.          *)
C7_CallsAreHopsTimesBases ==
    (TrainFinished /\ TwoBaseScenario) =>
        Len(ReleaseCalls) =
            Cardinality({h \in TrainHops : \E k \in 1..2 : HopOpen(StartMappings[k], h)})
            * Cardinality({k \in 1..2 : AllOpen(StartMappings[k])})

(* C7, amended: a finished train has made one release call for every base  *)
(* and hop such that the hop's two channels are open on that base: 3 for A *)
(* and 2 for B, 5 in all.                                                  *)
C7_CallsAreOpenBaseHops ==
    TrainFinished =>
        /\ Len(ReleaseCalls) =
            Cardinality({bh \in (1..Len(StartMappings)) \X TrainHops :
                            HopOpen(StartMappings[bh[1]], bh[2])})
        /\ TwoBaseScenario => Len(ReleaseCalls) = 5

C7_Witness == TrainFinished /\ TwoBaseScenario /\ Len(ReleaseCalls) = 5

ChannelMatches(release, mapping, entry) ==
    /\ entry.key = release.channel
    /\ entry.value.name = release.channel
    /\ entry.value.status = release.status
    /\ entry.value.base_version = mapping.base.channel
    /\ entry.value.base_arch = mapping.base.architecture
    /\ entry.value.revision = (IF release.revision = None THEN -1 ELSE release.revision[1])
    /\ IF release.resources = None
       THEN entry.value.resources = <<>>
       ELSE /\ Len(entry.value.resources) = Len(release.resources[1])
            /\ \A i \in 1..Len(release.resources[1]) :
                /\ entry.value.resources[i].name = release.resources[1][i].name
                /\ entry.value.resources[i].revision = release.resources[1][i].revision
                /\ entry.value.resources[i].upstream_source = None

TrackMatches(track_mappings, entry) ==
    /\ entry.key = track_mappings.track
    /\ entry.value.name = track_mappings.track
    /\ Len(entry.value.bases) = Len(track_mappings.mappings)
    /\ \A m \in 1..Len(track_mappings.mappings) :
        LET mapping == track_mappings.mappings[m]
            base == entry.value.bases[m]
        IN /\ base.key = <<mapping.base.channel, "/", mapping.base.architecture>>
           /\ base.value.version = mapping.base.channel
           /\ base.value.arch = mapping.base.architecture
           /\ Len(base.value.channels) = Len(mapping.releases)
           /\ \A i \in 1..Len(mapping.releases) :
                ChannelMatches(mapping.releases[i], mapping, base.value.channels[i])

(* C8: release_status gives one TrackStatus per track, one BaseStatus per  *)
(* mapping under the key version/arch, and one ChannelStatus per release   *)
(* under its channel name, with the release's status and the base's        *)
(* version and arch; a null revision becomes -1 and null resources become  *)
(* the empty list.                                                         *)
C8_ReleaseStatusTree ==
    /\ LET tree == release_status(charmhub)
       IN /\ Len(tree) = Len(charmhub)
          /\ \A t \in 1..Len(charmhub) : TrackMatches(charmhub[t], tree[t])
    /\ pc = "loop" =>
        \E t \in 1..Len(LastRead) :
            /\ LastRead[t].track = ChannelTrack(source)
            /\ TrackMatches(LastRead[t], [key |-> track_status.name, value |-> track_status])

C8_Witness ==
    /\ pc = "loop"
    /\ Len(track_status.bases) = 2
    /\ \E c \in 1..Len(track_status.bases[1].value.channels) :
        LET channel == track_status.bases[1].value.channels[c].value
        IN channel.revision = -1 /\ channel.resources = <<>> /\ channel.status = "closed"

RiskOrder == <<"edge", "beta", "candidate", "stable">>

RiskAfter(r) ==
    LET i == CHOOSE j \in 1..4 : RiskOrder[j] = r
    IN RiskOrder[IF i = 4 THEN 4 ELSE i + 1]

LastSlash(text) == CHOOSE i \in 1..Len(text) : text[i] = "/" /\ \A j \in (i + 1)..Len(text) : text[j] # "/"

(* C9: from a valid channel, next_risk_channel gives the channel of the    *)
(* same track whose risk is the next one in edge, beta, candidate, stable, *)
(* and stable is followed by stable; following it three times or more      *)
(* from any valid channel ends at the stable channel of the track.         *)
C9_NextRiskChannel ==
    /\ [](steps >= 3 /\ outcome.op = "next_risk_channel" /\ outcome.raised = "none" =>
            charm_channel = SubSeq(first, 1, LastSlash(first)) \o <<"stable">>)
    /\ [][(outcome'.op = "next_risk_channel" /\ outcome'.raised = "none" /\ steps' = steps + 1) =>
            LET slash == LastSlash(charm_channel)
                stable == SubSeq(charm_channel, 1, slash) \o <<"stable">>
            IN /\ charm_channel' = SubSeq(charm_channel, 1, slash)
                                        \o <<RiskAfter(charm_channel[slash + 1])>>
               /\ charm_channel = stable => charm_channel' = stable]_vars

C9_Witness ==
    /\ steps = 3 /\ outcome.op = "next_risk_channel"
    /\ first = <<"t", "/", "edge">>
    /\ charm_channel = <<"t", "/", "stable">>

OneSlashForm(text) ==
    /\ Len(text) >= 3
    /\ text[Len(text) - 1] = "/"
    /\ text[Len(text)] \in {"edge", "beta", "candidate", "stable"}
    /\ \A i \in 1..(Len(text) - 2) : text[i] # "/"

(* C10: constructing a CharmChannel never fails; reading track or risk     *)
(* raises InputError for every name that is not TRACK/RISK with a          *)
(* non-empty track, exactly one slash and a risk among edge, beta,         *)
(* candidate and stable, and returns the two parts for every name that is. *)
C10_TrackRiskOnlyForOneSlashNames ==
    /\ outcome.op = "CharmChannel" => outcome.raised = "none"
    /\ outcome.op \in {"track", "risk"} =>
        IF OneSlashForm(charm_channel)
        THEN /\ outcome.raised = "none"
             /\ outcome.op = "track" =>
                    outcome.value = SubSeq(charm_channel, 1, Len(charm_channel) - 2)
             /\ outcome.op = "risk" => outcome.value = <<charm_channel[Len(charm_channel)]>>
        ELSE outcome.raised = "InputError"

----------------------------------------------------------------------------
(* rock: local_tags (src/services/rockcraft.py)                            *)
(* A folder name is a sequence of chunks; a numeral chunk is a maximal run *)
(* of digits, "." is a chunk of its own.                                   *)

MaxFolders == 2

Numerals == {"0", "1", "2", "01"}

Number(numeral) ==
    CASE numeral = "0" -> 0
      [] numeral = "1" -> 1
      [] numeral = "01" -> 1
      [] numeral = "2" -> 2

DotForm(text, parts) ==
    /\ Len(text) = 2 * parts - 1
    /\ \A i \in 1..Len(text) : IF i % 2 = 1 THEN text[i] \in Numerals ELSE text[i] = "."

BeforeFinalNewline(text) ==
    IF text # <<>> /\ text[Len(text)] = "\n" THEN SubSeq(text, 1, Len(text) - 1) ELSE text

version_regex_PatchOnly(text) ==
    IF DotForm(BeforeFinalNewline(text), 3)
    THEN Some(Some(SubSeq(BeforeFinalNewline(text), 4, 5)))
    ELSE None

version_regex(text) ==
    LET body == BeforeFinalNewline(text)
    IN IF DotForm(body, 3) THEN Some(Some(SubSeq(body, 4, 5)))
       ELSE IF DotForm(body, 2) THEN Some(None)
       ELSE None

has_patch(version_str) ==
    LET version_search == version_regex(version_str)
    IN version_search # None /\ version_search[1] # None

RECURSIVE Strip(_)
Strip(text) ==
    IF text = <<>> THEN text
    ELSE IF IsSpace(text[1]) THEN Strip(Tail(text))
    ELSE IF IsSpace(text[Len(text)]) THEN Strip(SubSeq(text, 1, Len(text) - 1))
    ELSE text

Version(text) ==
    LET body == Strip(text)
        release == [i \in 1..((Len(body) + 1) \div 2) |-> Number(body[2 * i - 1])]
    IN [major |-> release[1],
        minor |-> IF Len(release) >= 2 THEN release[2] ELSE 0,
        micro |-> IF Len(release) >= 3 THEN release[3] ELSE 0]

VersionGreater(a, b) ==
    \/ a.major > b.major
    \/ a.major = b.major /\ a.minor > b.minor
    \/ a.major = b.major /\ a.minor = b.minor /\ a.micro > b.micro

RECURSIVE InsertByVersion(_, _)
InsertByVersion(sorted, version_str) ==
    IF sorted = <<>> THEN <<version_str>>
    ELSE IF VersionGreater(Version(sorted[Len(sorted)]), Version(version_str))
         THEN Append(InsertByVersion(SubSeq(sorted, 1, Len(sorted) - 1), version_str),
                     sorted[Len(sorted)])
         ELSE Append(sorted, version_str)

RECURSIVE SortByVersion(_)
SortByVersion(versions) ==
    IF versions = <<>> THEN <<>>
    ELSE InsertByVersion(SortByVersion(SubSeq(versions, 1, Len(versions) - 1)),
                         versions[Len(versions)])

major_tag(version) == <<ToString(version.major)>>

minor_tag(version) == <<ToString(version.major), ".", ToString(version.minor)>>

patch_tag(version) ==
    <<ToString(version.major), ".", ToString(version.minor), ".", ToString(version.micro)>>

AddIfMissing(tags, tag, version_str) ==
    IF DictHas(tags, tag) THEN tags ELSE DictSet(tags, tag, version_str)

TakeIfGreater_Never(tags, tag, version_str) == tags

TakeIfGreater(tags, tag, version_str) ==
    IF VersionGreater(Version(version_str), Version(DictGet(tags, tag)))
    THEN DictSet(tags, tag, version_str)
    ELSE tags

AssignTags(tags, version_str) ==
    LET version == Version(version_str)
        with_major == AddIfMissing(tags, major_tag(version), version_str)
        with_minor == AddIfMissing(with_major, minor_tag(version), version_str)
        with_patch == IF has_patch(version_str)
                      THEN AddIfMissing(with_minor, patch_tag(version), version_str)
                      ELSE with_minor
        higher_major == TakeIfGreater(with_patch, major_tag(version), version_str)
    IN TakeIfGreater(higher_major, minor_tag(version), version_str)

RECURSIVE TagsOf(_)
TagsOf(versions) ==
    IF versions = <<>> THEN <<>>
    ELSE AssignTags(TagsOf(SubSeq(versions, 1, Len(versions) - 1)), versions[Len(versions)])

TagList(tags, v) ==
    LET owned == SelectSeq(tags, LAMBDA entry : entry.value = v)
    IN [i \in 1..Len(owned) |-> owned[i].key]

RECURSIVE TagsPerVersion(_, _)
TagsPerVersion(versions, tags) ==
    IF versions = <<>> THEN <<>>
    ELSE DictSet(TagsPerVersion(SubSeq(versions, 1, Len(versions) - 1), tags),
                 versions[Len(versions)], TagList(tags, versions[Len(versions)]))

local_tags(version_folders) ==
    LET versions == SortByVersion(SelectSeq(version_folders, LAMBDA x : version_regex(x) # None))
    IN IF versions = <<>>
       THEN [raised |-> "InputError", value |-> <<>>]
       ELSE [raised |-> "none", value |-> TagsPerVersion(versions, TagsOf(versions))]

----------------------------------------------------------------------------
(* rock: oci_factory_manifest. A time is a day number and an hour of that  *)
(* day; the manifest is the structure that yaml.dump writes out.           *)

RECURSIVE Split(_, _)
Split(text, sep) ==
    IF \E i \in 1..Len(text) : text[i] = sep
    THEN LET at == CHOOSE i \in 1..Len(text) :
                       text[i] = sep /\ \A j \in 1..(i - 1) : text[j] # sep
         IN <<SubSeq(text, 1, at - 1)>> \o Split(SubSeq(text, at + 1, Len(text)), sep)
    ELSE <<text>>

QuarterDays == 91
QuarterHours == 6

AfterQuarter(now) ==
    [day |-> now.day + QuarterDays + (IF now.hour + QuarterHours >= 24 THEN 1 ELSE 0),
     hour |-> (now.hour + QuarterHours) % 24]

DayBefore(now) == [day |-> now.day - 1, hour |-> now.hour]

Midnight(time) == [date |-> time.day, time |-> "T00:00:00Z"]

is_tag_with_patch_Never(tag) == FALSE

is_tag_with_patch(tag) == Len(Split(Split(tag, "-")[1], ".")) = 3

StableOnly_EveryRisk == <<"edge", "beta", "candidate", "stable">>

StableOnly == <<"stable">>

RECURSIVE ReleaseOf(_, _, _)
ReleaseOf(tags, end_of_life, end_of_life_patch) ==
    IF tags = <<>> THEN <<>>
    ELSE LET tag == tags[Len(tags)]
         IN DictSet(ReleaseOf(SubSeq(tags, 1, Len(tags) - 1), end_of_life, end_of_life_patch),
                    tag,
                    [end_of_life |-> IF is_tag_with_patch(tag)
                                     THEN end_of_life_patch ELSE end_of_life,
                     risks |-> StableOnly])

oci_factory_manifest(repository, commit, versions_with_tags, clock) ==
    LET end_of_life == Midnight(AfterQuarter(clock[1]))
        end_of_life_patch == Midnight(DayBefore(clock[2]))
    IN [version |-> 1,
        upload |-> [i \in 1..Len(versions_with_tags) |->
                       [source |-> repository,
                        commit |-> commit,
                        directory |-> versions_with_tags[i].key,
                        release |-> ReleaseOf(versions_with_tags[i].value,
                                              end_of_life, end_of_life_patch)]]]

----------------------------------------------------------------------------
(* The rock commands and calls, each started in a fresh working directory *)

FolderNames ==
    {<<"1", ".", "0">>, <<"1", ".", "1">>, <<"2", ".", "0">>, <<"01", ".", "0">>,
     <<"1", ".", "0", ".", "0">>, <<"1", ".", "0", ".", "1">>,
     <<"1", ".", "1", ".", "0">>, <<"2", ".", "0", ".", "0">>,
     <<"no-version">>, <<"1">>, <<"1", ".", "0", ".", "0", ".", "0">>}

RECURSIVE Listings(_)
Listings(n) ==
    IF n = 0 THEN {<<>>}
    ELSE LET shorter == Listings(n - 1)
         IN shorter \cup {Append(listing, name) :
                             listing \in {x \in shorter : Len(x) = n - 1},
                             name \in FolderNames}

OsListdir ==
    {listing \in Listings(MaxFolders) :
        \A i, j \in 1..Len(listing) : i # j => listing[i] # listing[j]}

Today == 100

Clocks ==
    {<<[day |-> Today, hour |-> 17], [day |-> Today, hour |-> 17]>>,
     <<[day |-> Today, hour |-> 17], [day |-> Today, hour |-> 18]>>,
     <<[day |-> Today, hour |-> 23], [day |-> Today, hour |-> 23]>>,
     <<[day |-> Today, hour |-> 23], [day |-> Today + 1, hour |-> 0]>>}

RockRepos == {<<"canonical", "/", "prometheus-rock">>, <<"prometheus-rock">>}

Commits == {"abcdef123"}

Bases == {<<"22", ".", "04">>}

VersionLists ==
    {<< <<"1", ".", "0", ".", "0">> >>, << <<"1", ".", "0">> >>, << <<"2", ".", "0">> >>,
     << <<"1", ".", "0", ".", "0">>, <<"1", ".", "0", ".", "1">> >>}

InitRock ==
    /\ NoCommand
    /\ NoChannel
    /\ NoGithub
    /\ NoTools
    /\ folders \in OsListdir
    /\ tags_per_version = <<>>
    /\ manifest = [version |-> 0, upload |-> <<>>]
    /\ rock_call = [op |-> "none", raised |-> "none", args |-> <<>>, clock |-> <<>>]
    /\ oci = [requests |-> <<>>, tags |-> <<>>]

list_local_tags ==
    /\ rock_call.op = "none"
    /\ LET result == local_tags(folders)
       IN /\ tags_per_version' = result.value
          /\ rock_call' = [op |-> "local_tags", raised |-> result.raised,
                           args |-> <<>>, clock |-> <<>>]
    /\ UNCHANGED <<folders, manifest, oci>>
    /\ UNCHANGED <<charm_vars, channel_vars, github_vars,
                 library_vars, pack_vars, kube_vars>>

generate_manifest(repository, commit, clock) ==
    /\ rock_call.op = "local_tags"
    /\ rock_call.raised = "none"
    /\ manifest' = oci_factory_manifest(repository, commit, tags_per_version, clock)
    /\ rock_call' = [op |-> "oci_factory_manifest", raised |-> "none",
                     args |-> <<repository, commit>>, clock |-> clock]
    /\ UNCHANGED <<folders, tags_per_version, oci>>
    /\ UNCHANGED <<charm_vars, channel_vars, github_vars,
                 library_vars, pack_vars, kube_vars>>

WithBase(tags, base) == [i \in 1..Len(tags) |-> tags[i] \o <<"-">> \o base]

InList(list, x) == \E i \in 1..Len(list) : list[i] = x

manifest_command(rock_repo, commit_sha, version_list, base, clock) ==
    /\ rock_call.op = "none"
    /\ LET versions_with_tags == local_tags(folders)
           chosen == SelectSeq(versions_with_tags.value,
                               LAMBDA entry : InList(version_list, entry.key))
           selected_versions == [i \in 1..Len(chosen) |->
                                    [key |-> chosen[i].key,
                                     value |-> WithBase(chosen[i].value, base)]]
       IN IF \/ versions_with_tags.raised # "none"
             \/ Len(Split(rock_repo, "/")) # 2
             \/ \E i \in 1..Len(version_list) : ~DictHas(selected_versions, version_list[i])
          THEN /\ rock_call' = [op |-> "manifest", raised |-> "InputError",
                                args |-> <<rock_repo, commit_sha>>, clock |-> <<>>]
               /\ UNCHANGED <<tags_per_version, manifest>>
          ELSE /\ tags_per_version' = selected_versions
               /\ manifest' = oci_factory_manifest(rock_repo, commit_sha, selected_versions, clock)
               /\ rock_call' = [op |-> "manifest", raised |-> "none",
                                args |-> <<rock_repo, commit_sha>>, clock |-> clock]
    /\ UNCHANGED <<folders, oci>>
    /\ UNCHANGED <<charm_vars, channel_vars, github_vars,
                 library_vars, pack_vars, kube_vars>>

HasRockSuffix_Never(rock_name) == FALSE

HasRockSuffix(rock_name) == Contains(rock_name, "-rock")

ReleasesUrl(rock_name) ==
    <<"https://raw.githubusercontent.com/canonical/oci-factory/main/oci/">>
        \o rock_name \o <<"/_releases.json">>

WithoutBase(raw_tags) == [i \in 1..Len(raw_tags) |-> Split(raw_tags[i], "-")[1]]

oci_factory_tags(rock_name, response) ==
    IF HasRockSuffix(rock_name)
    THEN [raised |-> "InputError", requests |-> <<>>, value |-> <<>>]
    ELSE LET requests == <<ReleasesUrl(rock_name)>>
         IN IF response.status_code = 404
            THEN [raised |-> "none", requests |-> requests, value |-> <<>>]
            ELSE IF response.status_code # 200
            THEN [raised |-> "GitHubError", requests |-> requests, value |-> <<>>]
            ELSE [raised |-> "none", requests |-> requests,
                  value |-> SortByVersion(WithoutBase(response.raw_tags))]

RockNames ==
    {<<"prometheus">>, <<"some", "-rock">>, <<"canonical", "/", "some", "-rock">>}

ReleaseFeeds ==
    {<<>>,
     << <<"1", ".", "0", ".", "0", "-", "22", ".", "04">>, <<"1", ".", "0", "-", "22", ".", "04">> >>,
     << <<"2", ".", "0", "-", "22", ".", "04">>, <<"1", ".", "1", "-", "22", ".", "04">> >>}

Responses ==
    [status_code : {200}, raw_tags : ReleaseFeeds]
        \cup [status_code : {404, 300, 500}, raw_tags : {<<>>}]

fetch_oci_factory_tags(rock_name, response) ==
    /\ rock_call.op = "none"
    /\ LET result == oci_factory_tags(rock_name, response)
       IN /\ oci' = [requests |-> result.requests, tags |-> result.value]
          /\ rock_call' = [op |-> "oci_factory_tags", raised |-> result.raised,
                           args |-> <<rock_name, response>>, clock |-> <<>>]
    /\ UNCHANGED <<folders, tags_per_version, manifest>>
    /\ UNCHANGED <<charm_vars, channel_vars, github_vars,
                 library_vars, pack_vars, kube_vars>>

NextRock ==
    \/ list_local_tags
    \/ \E repository \in RockRepos, commit \in Commits, clock \in Clocks :
           generate_manifest(repository, commit, clock)
    \/ \E rock_repo \in RockRepos, commit_sha \in Commits, version_list \in VersionLists,
          base \in Bases, clock \in Clocks :
           manifest_command(rock_repo, commit_sha, version_list, base, clock)
    \/ \E rock_name \in RockNames, response \in Responses :
           fetch_oci_factory_tags(rock_name, response)

SpecRock == InitRock /\ [][NextRock]_vars

----------------------------------------------------------------------------
(* Reading a local_tags result, for the properties below *)

TagsListed == rock_call.op = "local_tags" /\ rock_call.raised = "none"

IsVersionName(text) ==
    \/ \E a, b \in Numerals : text = <<a, ".", b>>
    \/ \E a, b, c \in Numerals : text = <<a, ".", b, ".", c>>

VersionFolders == {folders[i] : i \in {j \in 1..Len(folders) : IsVersionName(folders[j])}}

ThreeComponents(v) == Len(v) = 5

Produces(v, tag) ==
    \/ tag = <<ToString(Number(v[1]))>>
    \/ tag = <<ToString(Number(v[1])), ".", ToString(Number(v[3]))>>
    \/ /\ ThreeComponents(v)
       /\ tag = <<ToString(Number(v[1])), ".", ToString(Number(v[3])), ".",
                  ToString(Number(v[5]))>>

Owns(result, v, tag) == DictHas(result, v) /\ InList(DictGet(result, v), tag)

Higher(v, w) == VersionGreater(Version(v), Version(w))

AllTags == {tag \in Texts(Numerals \cup {"."}, 5) : \E v \in VersionFolders : Produces(v, tag)}

(* C11: every tag that some input version produces has exactly one owner   *)
(* in the result of local_tags; the owner produces the tag and no input    *)
(* that produces the tag is semantically higher than the owner; a version  *)
(* owns only tags it produces, so a patch tag is owned by a                *)
(* three-component version it is derived from.                             *)
C11_TagsOwnedByHighest ==
    TagsListed =>
        /\ \A tag \in AllTags :
              \E owner \in VersionFolders :
                  /\ Owns(tags_per_version, owner, tag)
                  /\ Produces(owner, tag)
                  /\ \A w \in VersionFolders : Produces(w, tag) => ~Higher(w, owner)
                  /\ \A other \in VersionFolders :
                         Owns(tags_per_version, other, tag) => other = owner
        /\ \A i \in 1..Len(tags_per_version) :
              \A j \in 1..Len(tags_per_version[i].value) :
                  Produces(tags_per_version[i].key, tags_per_version[i].value[j])

C11_Witness ==
    /\ TagsListed
    /\ \E v, w \in VersionFolders :
          /\ Higher(v, w)
          /\ v[1] = w[1]
          /\ Owns(tags_per_version, v, <<ToString(Number(v[1]))>>)
          /\ ~Owns(tags_per_version, w, <<ToString(Number(w[1]))>>)

FullPrecisionTag(v) ==
    IF ThreeComponents(v)
    THEN <<ToString(Number(v[1])), ".", ToString(Number(v[3])), ".", ToString(Number(v[5]))>>
    ELSE <<ToString(Number(v[1])), ".", ToString(Number(v[3]))>>

(* C12: in a result of local_tags every version key maps to a non-empty    *)
(* tag list that contains the version's own full-precision tag, and the    *)
(* major tag of the highest major is owned by a highest version overall.   *)
C12_EveryVersionOwnsItsOwnTag ==
    TagsListed =>
        /\ \A i \in 1..Len(tags_per_version) :
              /\ tags_per_version[i].value # <<>>
              /\ InList(tags_per_version[i].value, FullPrecisionTag(tags_per_version[i].key))
        /\ \E top \in VersionFolders :
              /\ \A w \in VersionFolders : ~Higher(w, top)
              /\ Owns(tags_per_version, top, <<ToString(Number(top[1]))>>)

Orderings(n) ==
    {p \in [1..n -> 1..n] : \A i, j \in 1..n : i # j => p[i] # p[j]}

Permuted(list) == {[i \in 1..Len(list) |-> list[p[i]]] : p \in Orderings(Len(list))}

SameDict(a, b) ==
    /\ \A i \in 1..Len(a) : DictHas(b, a[i].key) /\ DictGet(b, a[i].key) = a[i].value
    /\ \A i \in 1..Len(b) : DictHas(a, b[i].key)

(* C13: local_tags returns the same version -> tags mapping (or raises     *)
(* the same error) for every permutation of its input list.                *)
C13_OrderDoesNotMatter ==
    rock_call.op = "local_tags" =>
        \A other \in Permuted(folders) :
            /\ local_tags(other).raised = rock_call.raised
            /\ SameDict(local_tags(other).value, tags_per_version)

(* C14: local_tags raises InputError exactly when no input matches          *)
(* major.minor or major.minor.patch; otherwise the keys of the result are  *)
(* exactly the matching inputs, the others being ignored.                  *)
C14_InputErrorIffNoVersion ==
    rock_call.op = "local_tags" =>
        /\ rock_call.raised = "InputError" <=> VersionFolders = {}
        /\ rock_call.raised \in {"InputError", "none"}
        /\ rock_call.raised = "none" =>
              /\ {tags_per_version[i].key : i \in 1..Len(tags_per_version)} = VersionFolders
              /\ Len(tags_per_version) = Cardinality(VersionFolders)

C14_Witness ==
    /\ TagsListed
    /\ \E i \in 1..Len(folders) : ~IsVersionName(folders[i])
    /\ \E i \in 1..Len(folders) :
          IsVersionName(folders[i]) /\ ~ThreeComponents(folders[i])

----------------------------------------------------------------------------
(* Reading a manifest, for the properties below *)

ManifestBuilt ==
    rock_call.op \in {"oci_factory_manifest", "manifest"} /\ rock_call.raised = "none"

Keys(dict) == [i \in 1..Len(dict) |-> dict[i].key]

(* C15: the manifest has one upload directive per key of the version ->    *)
(* tags input, in the input's order, each with the given repository as     *)
(* source, the given commit, the version as directory and one release      *)
(* entry per tag whose risks are exactly <<"stable">>.                     *)
C15_OneDirectivePerVersion ==
    ManifestBuilt =>
        /\ manifest.version = 1
        /\ Len(manifest.upload) = Len(tags_per_version)
        /\ \A i \in 1..Len(manifest.upload) :
              /\ manifest.upload[i].source = rock_call.args[1]
              /\ manifest.upload[i].commit = rock_call.args[2]
              /\ manifest.upload[i].directory = tags_per_version[i].key
              /\ Keys(manifest.upload[i].release) = tags_per_version[i].value
              /\ \A j \in 1..Len(manifest.upload[i].release) :
                     manifest.upload[i].release[j].value.risks = <<"stable">>

C15_Witness ==
    /\ ManifestBuilt
    /\ Len(manifest.upload) = 2
    /\ \E i \in 1..Len(manifest.upload) : Len(manifest.upload[i].release) >= 2

Dots(text) == Cardinality({i \in 1..Len(text) : text[i] = "."})

VersionPart(tag) ==
    IF \E i \in 1..Len(tag) : tag[i] = "-"
    THEN SubSeq(tag, 1, (CHOOSE i \in 1..Len(tag) :
                            tag[i] = "-" /\ \A j \in 1..(i - 1) : tag[j] # "-") - 1)
    ELSE tag

ReleaseEntries ==
    {at \in (1..Len(manifest.upload)) \X (1..3) :
        at[2] <= Len(manifest.upload[at[1]].release)}

EndOfLife(at) == manifest.upload[at[1]].release[at[2]].value.end_of_life

TagAt(at) == manifest.upload[at[1]].release[at[2]].key

TestVersionsWithTags ==
    << [key |-> <<"1", ".", "0", ".", "0">>, value |-> << <<"1", ".", "0", ".", "0">> >>],
       [key |-> <<"1", ".", "0", ".", "1">>,
        value |-> << <<"1">>, <<"1", ".", "0">>, <<"1", ".", "0", ".", "1">> >>] >>

TestManifestBuilt ==
    /\ rock_call.op = "oci_factory_manifest"
    /\ tags_per_version = TestVersionsWithTags

----------------------------------------------------------------------------
(* GitHub: workflow_status and team_ci_status (src/services/github.py).    *)
(* A README is a sequence of lines and a line a sequence of items: a badge *)
(* of a workflow of some repository, or other text. gh prints the          *)
(* conclusion of a run that has none yet as the empty string.              *)

MaxRepos == 2

WorkflowStatus_NoUrl(name, status, url) == [name |-> name, status |-> status, url |-> None]

WorkflowStatus(name, status, url) == [name |-> name, status |-> status, url |-> url]

workflow_status(answer, workflow) ==
    IF answer.exit = 1
    THEN WorkflowStatus(workflow, "missing", None)
    ELSE IF answer.runs = <<>>
    THEN WorkflowStatus(workflow, "no runs", None)
    ELSE LET run_status == answer.runs[1]
         IN IF run_status.conclusion = "" /\ run_status.status = "queued"
            THEN WorkflowStatus(workflow, "queued", None)
            ELSE WorkflowStatus(workflow, run_status.conclusion, Some(run_status.url))

Badge(repo_full, workflow_yaml) == [badge |-> workflow_yaml, of |-> repo_full]

OtherText == [badge |-> <<>>, of |-> <<>>]

BadgesOf(line, repo_full) == SelectSeq(line, LAMBDA item : item.of = repo_full)

RECURSIVE workflows_in_readme(_, _)
workflows_in_readme(readme, repo_full) ==
    IF readme = <<>> THEN <<>>
    ELSE LET badges == BadgesOf(readme[1], repo_full)
             rest == workflows_in_readme(Tail(readme), repo_full)
         IN IF badges = <<>> THEN rest
            ELSE <<badges[Len(badges)].badge>> \o rest

RepoName(full) == Split(full, "/")[2]

NameRank(name) ==
    CASE name = "a" -> 1
      [] name = "b" -> 2
      [] name = "c" -> 3
      [] OTHER -> 4

RECURSIVE InsertByFullName(_, _)
InsertByFullName(sorted, repo) ==
    IF sorted = <<>> THEN <<repo>>
    ELSE IF NameRank(RepoName(sorted[Len(sorted)].full_name)) > NameRank(RepoName(repo.full_name))
         THEN Append(InsertByFullName(SubSeq(sorted, 1, Len(sorted) - 1), repo),
                     sorted[Len(sorted)])
         ELSE Append(sorted, repo)

RECURSIVE SortByFullName(_)
SortByFullName(repos) ==
    IF repos = <<>> THEN <<>>
    ELSE InsertByFullName(SortByFullName(SubSeq(repos, 1, Len(repos) - 1)), repos[Len(repos)])

Unarchived_All(team_repos) == team_repos

Unarchived(team_repos) == SelectSeq(team_repos, LAMBDA r : ~r.archived)

Statuses(workflows, runs) ==
    [i \in 1..Len(workflows) |-> workflow_status(DictGet(runs, workflows[i]), workflows[i])]

RECURSIVE CiStatus(_, _)
CiStatus(repos, runs) ==
    IF repos = <<>> THEN <<>>
    ELSE LET repo == repos[Len(repos)]
         IN DictSet(CiStatus(SubSeq(repos, 1, Len(repos) - 1), runs),
                    RepoName(repo.full_name),
                    Statuses(workflows_in_readme(repo.readme, repo.full_name), runs))

Fails(workflows, runs) ==
    \E i \in 1..Len(workflows) : DictGet(runs, workflows[i]).exit \notin {0, 1}

team_ci_status(hub) ==
    LET repos == SortByFullName(Unarchived(hub.repos))
    IN IF \E i \in 1..Len(repos) :
              Fails(workflows_in_readme(repos[i].readme, repos[i].full_name), hub.runs)
       THEN [raised |-> "ErrorReturnCode", value |-> <<>>]
       ELSE [raised |-> "none", value |-> CiStatus(repos, hub.runs)]

----------------------------------------------------------------------------
(* What gh can answer, and the calls made against it *)

Workflows == {"ci.yaml", "release.yaml"}

Run(conclusion, status) ==
    [exit |-> 0, runs |-> <<[conclusion |-> conclusion, status |-> status, url |-> "run-url"]>>]

NoRuns == [exit |-> 0, runs |-> <<>>]

GhFailed(code) == [exit |-> code, runs |-> <<>>]

RunAnswers ==
    {GhFailed(1), GhFailed(4), NoRuns,
     Run("success", "completed"), Run("failure", "completed"),
     Run("", "queued"), Run("", "in_progress")}

RunLists ==
    {<<[key |-> "ci.yaml", value |-> ci], [key |-> "release.yaml", value |-> release]>> :
        ci \in RunAnswers, release \in {Run("success", "completed"), GhFailed(1)}}

TeamNames == <<"b", "a", "c", "d">>

FullName(i) == <<"canonical", "/", TeamNames[i]>>

Readmes(i) ==
    {<<>>,
     << <<OtherText>>, <<Badge(<<"canonical", "/", "x">>, "ci.yaml")>> >>,
     << <<Badge(FullName(i), "ci.yaml")>> >>,
     << <<OtherText>>, <<Badge(FullName(i), "release.yaml")>>, <<Badge(FullName(i), "ci.yaml")>> >>,
     << <<Badge(FullName(i), "ci.yaml"), Badge(FullName(i), "release.yaml")>> >>}

RECURSIVE TeamRepos(_)
TeamRepos(n) ==
    IF n = 0 THEN {<<>>}
    ELSE LET shorter == TeamRepos(n - 1)
         IN shorter \cup
            {Append(repos, [full_name |-> FullName(n), archived |-> archived, readme |-> readme]) :
                repos \in {x \in shorter : Len(x) = n - 1},
                archived \in BOOLEAN, readme \in Readmes(n)}

InitGithub ==
    /\ NoCommand
    /\ NoChannel
    /\ NoRock
    /\ NoTools
    /\ github \in [repos : TeamRepos(MaxRepos), runs : RunLists]
    /\ workflow_result = [name |-> <<>>, status |-> "none", url |-> None]
    /\ ci_status = <<>>
    /\ github_call = [op |-> "none", raised |-> "none"]

query_workflow_status(workflow_yaml) ==
    /\ github_call.op = "none"
    /\ LET answer == DictGet(github.runs, workflow_yaml)
       IN IF answer.exit \in {0, 1}
          THEN /\ workflow_result' = workflow_status(answer, workflow_yaml)
               /\ github_call' = [op |-> "workflow_status", raised |-> "none"]
          ELSE /\ github_call' = [op |-> "workflow_status", raised |-> "ErrorReturnCode"]
               /\ UNCHANGED workflow_result
    /\ UNCHANGED <<github, ci_status>>
    /\ UNCHANGED <<charm_vars, channel_vars, rock_vars,
                 library_vars, pack_vars, kube_vars>>

report_ci ==
    /\ github_call.op = "none"
    /\ LET result == team_ci_status(github)
       IN /\ ci_status' = result.value
          /\ github_call' = [op |-> "team_ci_status", raised |-> result.raised]
    /\ UNCHANGED <<github, workflow_result>>
    /\ UNCHANGED <<charm_vars, channel_vars, rock_vars,
                 library_vars, pack_vars, kube_vars>>

NextGithub ==
    \/ \E workflow_yaml \in Workflows : query_workflow_status(workflow_yaml)
    \/ report_ci

SpecGithub == InitGithub /\ [][NextGithub]_vars

----------------------------------------------------------------------------
(* Reading the results of the gh-backed calls, for the properties below *)

StatusReturned == github_call.op = "workflow_status" /\ github_call.raised = "none"

LatestRun == DictGet(github.runs, workflow_result.name)

(* C18: workflow_status gives "missing" without URL when the query cannot  *)
(* find the workflow, "no runs" without URL when no run is recorded,       *)
(* "queued" without URL when the latest run has no conclusion and is       *)
(* queued, and otherwise the run's conclusion as it is, with the run's URL.*)
C18_WorkflowStatusNormalised ==
    StatusReturned =>
        IF LatestRun.exit = 1
        THEN workflow_result.status = "missing" /\ workflow_result.url = None
        ELSE IF LatestRun.runs = <<>>
        THEN workflow_result.status = "no runs" /\ workflow_result.url = None
        ELSE IF LatestRun.runs[1].conclusion = "" /\ LatestRun.runs[1].status = "queued"
        THEN workflow_result.status = "queued" /\ workflow_result.url = None
        ELSE /\ workflow_result.status = LatestRun.runs[1].conclusion
             /\ workflow_result.url = Some(LatestRun.runs[1].url)

C18_Witness ==
    /\ StatusReturned
    /\ workflow_result = [name |-> "ci.yaml", status |-> "failure", url |-> Some("run-url")]

ClosedStatuses ==
    {"action_required", "cancelled", "failure", "neutral", "success", "skipped", "stale",
     "timed_out", "missing", "no runs", "queued"}

(* C19: every WorkflowStatus that workflow_status returns has a status of  *)
(* the closed set declared for WorkflowStatus.status.                      *)
C19_StatusInClosedSet ==
    StatusReturned => workflow_result.status \in ClosedStatuses

CiReported == github_call.op = "team_ci_status" /\ github_call.raised = "none"

TeamRepo(i) == github.repos[i]

Reported(i) == DictGet(ci_status, TeamRepo(i).full_name[3])

NoBadges(i) ==
    \A l \in 1..Len(TeamRepo(i).readme) :
        \A k \in 1..Len(TeamRepo(i).readme[l]) :
            TeamRepo(i).readme[l][k].of # TeamRepo(i).full_name

----------------------------------------------------------------------------
(* Reading what oci_factory_tags did, for the property below *)

TagsFetched == rock_call.op = "oci_factory_tags"

(* C21: oci_factory_tags raises InputError without any HTTP request when   *)
(* the rock name contains "-rock"; otherwise it makes one request and      *)
(* returns the empty list on status 404, raises GitHubError on every other *)
(* status that is not 200, and returns on 200.                             *)
C21_FetchErrors ==
    TagsFetched =>
        LET rock_name == rock_call.args[1]
            status_code == rock_call.args[2].status_code
        IN IF \E i \in 1..Len(rock_name) : rock_name[i] = "-rock"
           THEN rock_call.raised = "InputError" /\ oci.requests = <<>>
           ELSE /\ Len(oci.requests) = 1
                /\ status_code = 404 => rock_call.raised = "none" /\ oci.tags = <<>>
                /\ status_code \notin {200, 404} => rock_call.raised = "GitHubError"
                /\ status_code = 200 => rock_call.raised = "none"

C21_Witness ==
    /\ TagsFetched
    /\ rock_call.args[1] = <<"canonical", "/", "some", "-rock">>
    /\ rock_call.args[2].status_code = 404
    /\ rock_call.raised = "InputError"

(***************************************************************************)
(* Rejected uploads                                                        *)
(***************************************************************************)
UploadRejected(answer) ==
    /\ pc = "upload" /\ files.path_exists /\ ~OnlyPrint(dry_run)
    /\ ~answer.ok
    /\ upload(answer)

\* the errors the tool reported, when its output can be read as such
ReportedErrors(stdout) ==
    IF stdout.json /\ stdout.errors # None THEN stdout.errors[1] ELSE <<>>

EndsWithExistingRevision(message) ==
    /\ message # None
    /\ Len(message[1]) >= 2
    /\ message[1][Len(message[1]) - 1] = ExistingPackage
    /\ message[1][Len(message[1])] \in Digits

OneExistingRevisionError(stdout) ==
    LET errors == ReportedErrors(stdout)
    IN /\ Len(errors) = 1
       /\ errors[1].code = Some("review-error")
       /\ EndsWithExistingRevision(errors[1].message)

TreatedAsSuccess ==
    /\ Len(console') > Len(console)
    /\ console'[Len(console) + 1].kind = "already uploaded"

ResourceCalls(made) == {i \in 1..Len(made) : made[i].cmd = "upload-resource"}

(***************************************************************************)
(* C22: a rejected charm upload is treated as success only if the reported *)
(* errors are exactly one 'review-error' whose message ends with 'Revision *)
(* of the existing package is: <n>'; n is then the charm revision and the  *)
(* resources are uploaded next.  For every other rejection the original    *)
(* error of the tool propagates and no upload-resource call is made.       *)
(***************************************************************************)
C22_RejectedUpload ==
    [][\A answer \in UploadOutcomes :
         UploadRejected(answer) =>
            IF TreatedAsSuccess
            THEN /\ OneExistingRevisionError(answer.stdout)
                 /\ LET message == answer.stdout.errors[1][1].message[1]
                        n == IntOf(message[Len(message)])
                    IN /\ console'[Len(console) + 1].revision = n
                       /\ files.metadata # None =>
                            /\ uploaded'.revision = n
                            /\ MetadataResources(files.metadata[1]) # <<>>
                                 => pc' = "upload_resource"
            ELSE /\ pc' = "failed" /\ err' = "ErrorReturnCode"
                 /\ ResourceCalls(calls') = {}]_vars

\* the part of C22 that the code keeps: what is said of the accepted
\* rejection, and that no other rejection reaches the resources
C22_OnlyExistingRevisionGoesOn ==
    [][\A answer \in UploadOutcomes :
         UploadRejected(answer) =>
            IF TreatedAsSuccess
            THEN OneExistingRevisionError(answer.stdout)
            ELSE pc' = "failed" /\ ResourceCalls(calls') = {}]_vars

ExternalCalls(made) == {i \in 1..Len(made) : made[i].cmd \in {"upload", "upload-resource"}}

(***************************************************************************)
(* C23: upload with a path that does not exist raises InputError before    *)
(* any external call: neither charmcraft upload nor charmcraft             *)
(* upload-resource is invoked, with dry_run and without it.                *)
(***************************************************************************)
C23_MissingPathIsInputError ==
    [][\A answer \in UploadOutcomes :
         (pc = "upload" /\ ~files.path_exists /\ upload(answer)) =>
            /\ pc' = "failed" /\ err' = "InputError"
            /\ calls' = calls /\ ExternalCalls(calls') = {}
            /\ console' = console]_vars

C23_Witness ==
    /\ pc = "failed" /\ err = "InputError"
    /\ ~files.path_exists /\ files.metadata # None
    /\ OnlyPrint(dry_run)
    /\ calls = <<>>

C23_WitnessLive ==
    /\ pc = "failed" /\ err = "InputError"
    /\ ~files.path_exists /\ files.metadata # None
    /\ ~OnlyPrint(dry_run)
    /\ calls = <<>>

(***************************************************************************)
(* Publishing the libraries of a charm                                     *)
(***************************************************************************)
PublishReturned == pc = "done" /\ files.libraries # None /\ files.metadata # None

PublishLibCalls(library) ==
    {i \in 1..Len(calls) : calls[i] = UploadCall("publish-lib", full_name(library))}

LocalLibrary(i) == files.libraries[1][i]

OwnLibrary(i) == LocalLibrary(i).charm_name = files.metadata[1].name

(***************************************************************************)
(* C24: a publish_charm_libraries without dry_run that raises no           *)
(* CharmhubError has called publish-lib exactly once for every local       *)
(* library whose charm_name is the charm's own name and never for a        *)
(* library of another charm; 'is already updated' is not an error, the     *)
(* three LIBPATCH/content answers raise CharmhubError.                     *)
(***************************************************************************)
C24_PublishesEveryOwnLibrary ==
    (PublishReturned /\ ~OnlyPrint(dry_run)) =>
        \A i \in 1..Len(files.libraries[1]) :
           Cardinality(PublishLibCalls(LocalLibrary(i))) = IF OwnLibrary(i) THEN 1 ELSE 0

\* the parts of C24 that the code keeps
C24_NeverForAnotherCharm ==
    (files.libraries # None /\ files.metadata # None) =>
        \A i \in 1..Len(files.libraries[1]) :
           Cardinality(PublishLibCalls(LocalLibrary(i))) <= IF OwnLibrary(i) THEN 1 ELSE 0

C24_Answers ==
    [][\A result \in PublishResults :
         (~OnlyPrint(dry_run) /\ publish_charm_libraries(result)) =>
            LET message == IF result.error_message = None THEN <<>>
                           ELSE result.error_message[1]
            IN /\ Contains(message, AlreadyUpdated) => err' = err /\ pc' # "failed"
               /\ (\E e \in PublishErrors : Contains(message, e)) =>
                     err' = "CharmhubError" /\ pc' = "failed"]_vars

\* the run that leaves a library unpublished: the first own library is
\* already updated, the function returns, the second is never published
C24_LeftUnpublished ==
    /\ PublishReturned /\ ~OnlyPrint(dry_run)
    /\ \E i \in 1..Len(files.libraries[1]) :
          OwnLibrary(i) /\ PublishLibCalls(LocalLibrary(i)) = {}

----------------------------------------------------------------------------
(***************************************************************************)
(* outdated_charm_libraries: the libraries under lib/charms against the    *)
(* answers of `charmcraft list-lib`                                        *)
(***************************************************************************)
MaxVersion == 2

LibVersions == 0..MaxVersion

\* from_charmhub: the list-lib items of a charm, keyed by full name
from_charmhub(listed, charm_name) ==
    LET charmhub_libraries == IF DictHas(listed, charm_name)
                              THEN DictGet(listed, charm_name) ELSE <<>>
    IN DictFrom([i \in 1..Len(charmhub_libraries) |->
                    [key |-> full_name(charmhub_libraries[i]),
                     value |-> charmhub_libraries[i]]])

\* from_charmhub_with_name: the first listed library of that name, if any
from_charmhub_with_name(listed, charm_name, library_name) ==
    LET found == from_charmhub(listed, charm_name)
        matching_libraries == SelectSeq(found, LAMBDA lib : lib.value.library_name = library_name)
    IN IF matching_libraries = <<>> THEN None ELSE Some(matching_libraries[1].value)

is_outdated_MajorOnly(local_library, charmhub_library, minor, major) ==
    local_library.api < charmhub_library.api /\ major

is_outdated(local_library, charmhub_library, minor, major) ==
    \/ local_library.api < charmhub_library.api /\ major
    \/ /\ local_library.api = charmhub_library.api
       /\ local_library.patch < charmhub_library.patch
       /\ minor

LocalFolders ==
    {None, Some(<<>>)}
    \cup {Some(<<Library(CharmName, "catalogue", api, patch)>>) : api \in LibVersions, patch \in LibVersions}
    \cup {Some(<<Library(CharmName, "catalogue", 0, 1), Library(<<"other">>, "ingress", 1, 1),
                 Library(CharmName, "catalogue", 1, 0)>>)}

ListLib ==
    {<<[key |-> CharmName,
        value |-> <<Library(CharmName, "tracing", 2, 0), Library(CharmName, "catalogue", api, patch)>>],
       [key |-> <<"other">>, value |-> ingress]>> :
        api \in LibVersions, patch \in LibVersions,
        ingress \in {<<>>, <<Library(<<"other">>, "ingress", 1, 2)>>}}

InitLibraries ==
    /\ NoCommand
    /\ NoChannel
    /\ NoRock
    /\ NoGithub
    /\ NoPack
    /\ NoKube
    /\ charm_libs \in [local : LocalFolders, charmhub : ListLib]
    /\ outdated = NotChecking

\* the call, up to the loop: local_charm_libraries() raises InputError
\* when there is no lib/charms folder
outdated_charm_libraries(minor, major) ==
    /\ outdated.pc = "idle"
    /\ outdated' =
          IF charm_libs.local = None
          THEN [NotChecking EXCEPT !.pc = "raised", !.raised = "InputError",
                                   !.minor = minor, !.major = major]
          ELSE [NotChecking EXCEPT !.pc = IF charm_libs.local[1] = <<>> THEN "returned" ELSE "loop",
                                   !.minor = minor, !.major = major, !.at = 1]
    /\ UNCHANGED <<charm_libs, pack_vars, kube_vars>>
    /\ UNCHANGED <<charm_vars, channel_vars, rock_vars, github_vars>>

\* one round of the loop over the local libraries
check_library ==
    /\ outdated.pc = "loop"
    /\ LET local_library == charm_libs.local[1][outdated.at]
           charmhub_library == from_charmhub_with_name(charm_libs.charmhub,
                                    local_library.charm_name, local_library.library_name)
           last == outdated.at = Len(charm_libs.local[1])
       IN outdated' =
            IF charmhub_library = None
            THEN [outdated EXCEPT !.pc = "raised", !.raised = "CharmhubError"]
            ELSE [outdated EXCEPT
                    !.value = IF is_outdated(local_library, charmhub_library[1],
                                             outdated.minor, outdated.major)
                              THEN DictSet(@, full_name(charmhub_library[1]), charmhub_library[1])
                              ELSE @,
                    !.at = @ + 1,
                    !.pc = IF last THEN "returned" ELSE "loop"]
    /\ UNCHANGED <<charm_libs, pack_vars, kube_vars>>
    /\ UNCHANGED <<charm_vars, channel_vars, rock_vars, github_vars>>

NextLibraries ==
    \/ \E minor \in BOOLEAN, major \in BOOLEAN : outdated_charm_libraries(minor, major)
    \/ check_library

SpecLibraries == InitLibraries /\ [][NextLibraries]_vars

----------------------------------------------------------------------------
OutdatedReturned == outdated.pc = "returned"

RegistryLibrary(local_library) ==
    from_charmhub_with_name(charm_libs.charmhub, local_library.charm_name,
                            local_library.library_name)[1]

LowerApi(local_library) == local_library.api < RegistryLibrary(local_library).api

LowerPatch(local_library) ==
    /\ local_library.api = RegistryLibrary(local_library).api
    /\ local_library.patch < RegistryLibrary(local_library).patch

ToReport ==
    {i \in 1..Len(charm_libs.local[1]) :
        \/ outdated.major /\ LowerApi(charm_libs.local[1][i])
        \/ outdated.minor /\ LowerPatch(charm_libs.local[1][i])}

(***************************************************************************)
(* C25: outdated_charm_libraries(minor, major) reports a local library,    *)
(* under the full name of the registry's library, if and only if major is  *)
(* set and the local API is lower than the registry's, or minor is set,    *)
(* the APIs are equal and the local patch is lower; with both flags unset  *)
(* it reports nothing.                                                     *)
(***************************************************************************)
C25_OutdatedIff ==
    OutdatedReturned =>
        /\ {outdated.value[k].key : k \in 1..Len(outdated.value)}
              = {full_name(RegistryLibrary(charm_libs.local[1][i])) : i \in ToReport}
        /\ \A k \in 1..Len(outdated.value) :
              \E i \in ToReport :
                 outdated.value[k] = [key |-> full_name(RegistryLibrary(charm_libs.local[1][i])),
                                      value |-> RegistryLibrary(charm_libs.local[1][i])]
        /\ (~outdated.minor /\ ~outdated.major) => outdated.value = <<>>

C25_Witness ==
    /\ OutdatedReturned
    /\ outdated.minor /\ ~outdated.major
    /\ Len(charm_libs.local[1]) = 3
    /\ Len(outdated.value) = 1
    /\ ToReport # {}

----------------------------------------------------------------------------
(***************************************************************************)
(* pack: the charm folder (file name -> content), the backup in the        *)
(* temporary directory, and how far the call has come                      *)
(***************************************************************************)
CharmcraftYaml == "charmcraft.yaml"

DictRemove(d, k) == SelectSeq(d, LAMBDA entry : entry.key # k)

\* sh.cp(src, dst) on the charm folder; src is known to exist
Copy(d, src, dst) == DictSet(d, dst, DictGet(d, src))

\* the finally block: put the backup back, or remove the copy
restore_Nothing(d, backup, filename) == d

restore(d, backup, filename) ==
    IF backup # None THEN DictSet(d, CharmcraftYaml, backup[1])
    ELSE IF filename # CharmcraftYaml THEN DictRemove(d, CharmcraftYaml)
    ELSE d

YamlFiles == <<CharmcraftYaml, "charmcraft-22.04.yaml", "charmcraft-24.04.yaml">>

YamlContents == {"base: 20.04", "base: 22.04"}

RECURSIVE CharmFolders(_)
CharmFolders(n) ==
    IF n = 0 THEN {<<>>}
    ELSE LET shorter == CharmFolders(n - 1)
         IN shorter \cup {Append(d, [key |-> YamlFiles[n], value |-> content]) :
                             d \in shorter, content \in YamlContents}

InitPack ==
    /\ NoCommand
    /\ NoChannel
    /\ NoRock
    /\ NoGithub
    /\ NoLibraries
    /\ NoKube
    /\ disk \in [charm : CharmFolders(Len(YamlFiles)), temp : {None}]
    /\ pack_call = NotPacking

\* pack, up to the start of the tool: the backup and the copy.  A cp of
\* a file that is not there raises before the try block is entered.
pack(filename) ==
    /\ pack_call.pc = "idle"
    /\ LET backup == IF DictHas(disk.charm, CharmcraftYaml)
                     THEN Some(DictGet(disk.charm, CharmcraftYaml)) ELSE None
       IN IF filename # CharmcraftYaml /\ ~DictHas(disk.charm, filename)
          THEN /\ pack_call' = [pc |-> "raised", filename |-> filename,
                                 raised |-> "ErrorReturnCode", found |-> disk.charm]
               /\ UNCHANGED disk
          ELSE /\ pack_call' = [pc |-> "packing", filename |-> filename,
                                 raised |-> "none", found |-> disk.charm]
               /\ disk' = [charm |-> IF filename # CharmcraftYaml
                                     THEN Copy(disk.charm, filename, CharmcraftYaml)
                                     ELSE disk.charm,
                           temp |-> backup]
    /\ UNCHANGED <<library_vars, kube_vars>>
    /\ UNCHANGED <<charm_vars, channel_vars, rock_vars, github_vars>>

\* `charmcraft pack` ends, well or not; the finally block; the temporary
\* directory goes away
charmcraft_pack(ok) ==
    /\ pack_call.pc = "packing"
    /\ disk' = [charm |-> restore(disk.charm, disk.temp, pack_call.filename), temp |-> None]
    /\ pack_call' = [pack_call EXCEPT !.pc = IF ok THEN "returned" ELSE "raised",
                                       !.raised = IF ok THEN "none" ELSE "ErrorReturnCode"]
    /\ UNCHANGED <<library_vars, kube_vars>>
    /\ UNCHANGED <<charm_vars, channel_vars, rock_vars, github_vars>>

PackFilenames == {YamlFiles[i] : i \in 1..Len(YamlFiles)}

NextPack ==
    \/ \E filename \in PackFilenames : pack(filename)
    \/ \E ok \in BOOLEAN : charmcraft_pack(ok)

SpecPack == InitPack /\ [][NextPack]_vars

----------------------------------------------------------------------------
ContentOf(d, name) == IF DictHas(d, name) THEN Some(DictGet(d, name)) ELSE None

PackLeft == pack_call.pc \in {"returned", "raised"}

(***************************************************************************)
(* C26: pack(filename) leaves charmcraft.yaml as it found it, whether the  *)
(* packaging tool succeeds or fails: a charmcraft.yaml that existed has    *)
(* its original content afterwards; one that did not exist, with filename  *)
(* another file, does not exist afterwards; while the tool runs,           *)
(* charmcraft.yaml has the content of filename.                            *)
(***************************************************************************)
C26_PackRestoresCharmcraftYaml ==
    /\ PackLeft =>
          /\ ContentOf(disk.charm, CharmcraftYaml) = ContentOf(pack_call.found, CharmcraftYaml)
          /\ \A name \in PackFilenames :
                ContentOf(disk.charm, name) = ContentOf(pack_call.found, name)
    /\ pack_call.pc = "packing" =>
          ContentOf(disk.charm, CharmcraftYaml) = ContentOf(pack_call.found, pack_call.filename)

C26_Witness ==
    /\ pack_call.pc = "raised" /\ disk.temp = None
    /\ pack_call.filename = "charmcraft-22.04.yaml"
    /\ ContentOf(pack_call.found, CharmcraftYaml) = Some("base: 20.04")
    /\ ContentOf(pack_call.found, pack_call.filename) = Some("base: 22.04")
    /\ ContentOf(disk.charm, CharmcraftYaml) = Some("base: 20.04")

C26_WitnessRemoved ==
    /\ pack_call.pc = "returned"
    /\ pack_call.filename = "charmcraft-22.04.yaml"
    /\ ContentOf(pack_call.found, CharmcraftYaml) = None
    /\ ContentOf(disk.charm, CharmcraftYaml) = None

C26_WitnessPacking ==
    /\ pack_call.pc = "packing"
    /\ pack_call.filename = "charmcraft-22.04.yaml"
    /\ ContentOf(pack_call.found, CharmcraftYaml) = Some("base: 20.04")
    /\ ContentOf(disk.charm, CharmcraftYaml) = Some("base: 22.04")

----------------------------------------------------------------------------
(***************************************************************************)
(* kubernetes: one pod of the local cluster, the kubectl calls of the      *)
(* operation under way (wait_call.calls), and how far it has come          *)
(***************************************************************************)
MaxPolls == 3

NoPod == "none"

Phases == {"Pending", "Running", "Failed"}

\* exit codes of kubectl: 0, 1 (sh.ErrorReturnCode_1), 2 (any other)
Exits == {0, 1, 2}

Kubectl(cmd, exit, out) == [cmd |-> cmd, exit |-> exit, out |-> out]

\* kubectl can answer 0 about a pod only when the pod is there
Answers(exit) == exit = 0 => pod.phase # NoPod

is_pod_running_Always(pod_status) == TRUE

is_pod_running(pod_status) == pod_status = "Running"

InitKube ==
    /\ NoCommand
    /\ NoChannel
    /\ NoRock
    /\ NoGithub
    /\ NoLibraries
    /\ NoPack
    /\ pod \in [phase : {NoPod, "Pending", "Running"}]
    /\ wait_call = NotWaiting

NoOperation == wait_call.pc \in {"idle", "returned", "raised"}

Returned(op, made) ==
    [op |-> op, pc |-> "returned", polls |-> 0, raised |-> "none", calls |-> made]

Raised(op, made) ==
    [op |-> op, pc |-> "raised", polls |-> 0, raised |-> "ErrorReturnCode", calls |-> made]

\* run: _pod_exists reads exit code 1 of `kubectl get pod` as "no such
\* pod"; any other failure leaves run
run(get_exit, run_exit) ==
    /\ NoOperation
    /\ Answers(get_exit)
    /\ run_exit = 0 => pod.phase = NoPod
    /\ LET get == Kubectl("get pod", get_exit, "")
           kubectl_run == Kubectl("run", run_exit, "")
       IN IF get_exit = 0
          THEN wait_call' = Returned("run", <<get>>) /\ UNCHANGED pod
          ELSE IF get_exit # 1
          THEN wait_call' = Raised("run", <<get>>) /\ UNCHANGED pod
          ELSE IF run_exit = 0
          THEN wait_call' = Returned("run", <<get, kubectl_run>>)
               /\ pod' = [pod EXCEPT !.phase = "Pending"]
          ELSE wait_call' = Raised("run", <<get, kubectl_run>>) /\ UNCHANGED pod
    /\ UNCHANGED <<library_vars, pack_vars>>
    /\ UNCHANGED <<charm_vars, channel_vars, rock_vars, github_vars>>

stop(exit) ==
    /\ NoOperation
    /\ Answers(exit)
    /\ LET delete == Kubectl("delete pod", exit, "")
       IN IF exit = 0
          THEN wait_call' = Returned("stop", <<delete>>)
               /\ pod' = [pod EXCEPT !.phase = NoPod]
          ELSE wait_call' = Raised("stop", <<delete>>) /\ UNCHANGED pod
    /\ UNCHANGED <<library_vars, pack_vars>>
    /\ UNCHANGED <<charm_vars, channel_vars, rock_vars, github_vars>>

\* open_shell, up to its call of _wait_for_pod
open_shell ==
    /\ NoOperation
    /\ wait_call' = [op |-> "open_shell", pc |-> "waiting", polls |-> 0, raised |-> "none",
                      calls |-> <<>>]
    /\ UNCHANGED <<pod, library_vars, pack_vars>>
    /\ UNCHANGED <<charm_vars, channel_vars, rock_vars, github_vars>>

\* one attempt of _wait_for_pod under @retry(wait=wait_fixed(1)): no stop
\* condition, and every exception (TryAgain, a failing kubectl) is retried
wait_for_pod(exit) ==
    /\ wait_call.pc = "waiting"
    /\ wait_call.polls < MaxPolls
    /\ Answers(exit)
    /\ LET pod_status == IF exit = 0 THEN pod.phase ELSE ""
           made == Append(wait_call.calls, Kubectl("get pod phase", exit, pod_status))
       IN wait_call' = [wait_call EXCEPT
                          !.polls = @ + 1,
                          !.calls = made,
                          !.pc = IF exit = 0 /\ is_pod_running(pod_status)
                                 THEN "waited" ELSE "waiting"]
    /\ UNCHANGED <<pod, library_vars, pack_vars>>
    /\ UNCHANGED <<charm_vars, channel_vars, rock_vars, github_vars>>

\* open_shell, after the wait: kubectl exec ... /bin/bash
kubectl_exec(exit) ==
    /\ wait_call.pc = "waited"
    /\ LET made == Append(wait_call.calls, Kubectl("exec", exit, ""))
       IN wait_call' = [wait_call EXCEPT
                          !.calls = made,
                          !.pc = IF exit = 0 THEN "returned" ELSE "raised",
                          !.raised = IF exit = 0 THEN "none" ELSE "ErrorReturnCode"]
    /\ UNCHANGED <<pod, library_vars, pack_vars>>
    /\ UNCHANGED <<charm_vars, channel_vars, rock_vars, github_vars>>

\* the cluster moves the pod on by itself
kubelet(phase) ==
    /\ pod.phase \in {"Pending", "Running"}
    /\ phase # pod.phase
    /\ phase # "Pending"
    /\ pod' = [pod EXCEPT !.phase = phase]
    /\ UNCHANGED <<wait_call, library_vars, pack_vars>>
    /\ UNCHANGED <<charm_vars, channel_vars, rock_vars, github_vars>>

NextKube ==
    \/ \E get_exit \in Exits, run_exit \in Exits : run(get_exit, run_exit)
    \/ \E exit \in Exits : stop(exit)
    \/ open_shell
    \/ \E exit \in Exits : wait_for_pod(exit)
    \/ \E exit \in Exits : kubectl_exec(exit)
    \/ \E phase \in Phases : kubelet(phase)

SpecKube == InitKube /\ [][NextKube]_vars

----------------------------------------------------------------------------
Polls == {i \in 1..Len(wait_call.calls) : wait_call.calls[i].cmd = "get pod phase"}

ObservedRunning(i) == wait_call.calls[i].exit = 0 /\ wait_call.calls[i].out = "Running"

Waiting == wait_call.pc = "waiting"

WaitReturned == wait_call.op = "open_shell" /\ wait_call.pc \in {"waited", "returned", "raised"}

\* _wait_for_pod: it is left only by returning, and exactly at the first
\* poll that observes Running; no number of polls ends it otherwise
WaitsUntilRunning ==
    /\ Waiting => /\ wait_call.raised = "none"
                  /\ Cardinality(Polls) = wait_call.polls
                  /\ \A i \in Polls : ~ObservedRunning(i)
    /\ WaitReturned =>
          \E last \in Polls :
             /\ ObservedRunning(last)
             /\ \A i \in Polls : i < last => ~ObservedRunning(i)
             /\ \A i \in Polls : i <= last
    /\ wait_call.raised # "none" =>
          wait_call.calls[Len(wait_call.calls)].cmd # "get pod phase"

OtherCalls == {i \in 1..Len(wait_call.calls) : wait_call.calls[i].cmd # "get pod phase"}

NotRetried ==
    \A i \in OtherCalls : \A j \in OtherCalls :
        wait_call.calls[i].cmd = wait_call.calls[j].cmd => i = j

FailurePropagates(i) ==
    wait_call.calls[i].exit # 0 =>
        /\ wait_call.pc = "raised" /\ wait_call.raised = "ErrorReturnCode"
        /\ i = Len(wait_call.calls)

HandledByCaller(i) ==
    /\ wait_call.op = "run"
    /\ wait_call.calls[i] = Kubectl("get pod", 1, "")
    /\ Len(wait_call.calls) = 2 /\ wait_call.calls[2].cmd = "run"

(***************************************************************************)
(* C27: _wait_for_pod polls the pod phase with no upper bound on the       *)
(* number of attempts; it returns exactly when a poll observes 'Running',  *)
(* and otherwise (also when the status query keeps failing) neither        *)
(* returns nor raises; no other external call is retried, its failure      *)
(* propagates after one attempt.                                           *)
(***************************************************************************)
C27_OnlyTheWaitRetries ==
    /\ WaitsUntilRunning
    /\ NotRetried
    /\ \A i \in OtherCalls : FailurePropagates(i)

(***************************************************************************)
(* C27, as the code has it: the same, except that a failure of another     *)
(* external call propagates after one attempt unless its caller handles    *)
(* it: _pod_exists reads exit code 1 of `kubectl get pod` as "no such      *)
(* pod", and run goes on to `kubectl run`.                                 *)
(***************************************************************************)
C27_OnlyTheWaitRetriesOthersMayHandle ==
    /\ WaitsUntilRunning
    /\ NotRetried
    /\ \A i \in OtherCalls : FailurePropagates(i) \/ HandledByCaller(i)

C27_Witness ==
    /\ Waiting
    /\ wait_call.polls = MaxPolls
    /\ \E i \in Polls : wait_call.calls[i].exit # 0
    /\ \E i \in Polls : wait_call.calls[i].out = "Pending"

----------------------------------------------------------------------------
(***************************************************************************)
(* The release calls of a train, read off the registry as it was at the    *)
(* start: hop by hop (candidate, beta, edge), base by base                 *)
(***************************************************************************)
RECURSIVE CallsOfHop(_, _, _, _)
CallsOfHop(mappings, from, to, k) ==
    IF k = 0 THEN <<>>
    ELSE CallsOfHop(mappings, from, to, k - 1) \o
         (IF HubOpen(mappings[k], from) /\ HubOpen(mappings[k], to)
          THEN <<ReleaseCall(to, HubRevision(mappings[k], from),
                             HubResourceArgs(mappings[k], from))>>
          ELSE <<>>)

CallsFromStart(track) ==
    LET mappings == HubMappings(at_start, track)
        hop(from, to) == CallsOfHop(mappings, track \o <<"/", from>>, track \o <<"/", to>>,
                                    Len(mappings))
    IN hop("candidate", "stable") \o hop("beta", "candidate") \o hop("edge", "beta")

\* the release commands a dry run has printed, as calls
PrintedCalls ==
    LET lines == SelectSeq(console, LAMBDA n : n.kind = "dry run release")
    IN [i \in 1..Len(lines) |->
            ReleaseCall(lines[i].channel, lines[i].revision, lines[i].resources)]

IsPrefix(s, t) == Len(s) <= Len(t) /\ s = SubSeq(t, 1, Len(s))

TrainBegun == IsTrain /\ source # <<>>

(***************************************************************************)
(* C28: from the same initial status, with no outside change to the        *)
(* registry, a promote_train that is not a dry run issues exactly the      *)
(* release calls (target channels, revisions, resources, order) that a dry *)
(* run prints: no hop of the live train reads a revision that an earlier   *)
(* hop of the same train has written.  Both are the calls read off the     *)
(* initial status; a train that stops early has issued, or printed, the    *)
(* first of them.                                                          *)
(***************************************************************************)
C28_LiveTrainCallsAreDryRunPrints ==
    TrainBegun =>
        LET expected == CallsFromStart(ChannelTrack(source))
            issued == IF dry_run THEN PrintedCalls ELSE ReleaseCalls
        IN /\ IsPrefix(issued, expected)
           /\ pc = "done" => issued = expected

C28_Witness ==
    /\ TrainBegun /\ ~dry_run /\ pc = "done"
    /\ charmhub # at_start
    /\ Len(ReleaseCalls) = 3
    /\ \E i \in 1..3 : ReleaseCalls[i].resources # <<>>
    /\ ReleaseCalls[1].revision # ReleaseCalls[2].revision

C28_WitnessDryRun ==
    /\ TrainBegun /\ dry_run /\ pc = "done"
    /\ Len(PrintedCalls) = 3
    /\ \E i \in 1..3 : PrintedCalls[i].resources # <<>>
    /\ PrintedCalls[1].revision # PrintedCalls[2].revision

----------------------------------------------------------------------------
(***************************************************************************)
(* A promote that stops on a base                                          *)
(***************************************************************************)
StoppedOnBase ==
    /\ pc = "failed" /\ err \in {"KeyError", "ErrorReturnCode"}
    /\ ~dry_run
    /\ reads # <<>>
    /\ HopMappings # <<>>

\* the releases of the earlier bases are in the registry, the failing base
\* and the later ones are as they were read
EarlierInEffect ==
    LET now == HubMappings(charmhub, ChannelTrack(source))
    IN \A k \in 1..Len(HopMappings) :
          IF k < idx /\ HubOpen(HopMappings[k], source) /\ HubOpen(HopMappings[k], target)
          THEN /\ HubEntry(now[k], target).revision = Some(HubRevision(HopMappings[k], source))
               /\ HubResourceArgs(now[k], target) = HubResourceArgs(HopMappings[k], source)
          ELSE now[k] = HopMappings[k]

RejectedCall ==
    ReleaseCall(target, HubRevision(HopMappings[idx], source),
                HubResourceArgs(HopMappings[idx], source))

(***************************************************************************)
(* C29 as stated: charmcraft.promote is not all-or-nothing: when it stops  *)
(* on a base (a missing channel key or a rejected release call), the       *)
(* release calls already issued for the earlier bases remain in effect,    *)
(* and no release call is issued for the failing base or a later one.      *)
(***************************************************************************)
C29_NoCallFromFailingBaseOn ==
    StoppedOnBase =>
        /\ EarlierInEffect
        /\ HopCalls = ExpectedCalls(idx - 1)

(***************************************************************************)
(* C29, as the code has it: the releases of the earlier bases remain in    *)
(* effect and no call is issued for a later base; for the failing base no  *)
(* call is issued when a channel key is missing, and when the release is   *)
(* rejected the rejected call is the one call issued for it, the last.     *)
(***************************************************************************)
C29_StopsAtFailingBase ==
    StoppedOnBase =>
        /\ EarlierInEffect
        /\ HopCalls = ExpectedCalls(idx - 1)
                        \o (IF err = "ErrorReturnCode" THEN <<RejectedCall>> ELSE <<>>)
        /\ err = "KeyError" <=>
              ~(HubHas(HopMappings[idx], source) /\ HubHas(HopMappings[idx], target))

C29_Witness ==
    /\ StoppedOnBase /\ err = "ErrorReturnCode"
    /\ idx = 2 /\ Len(HopMappings) = 2
    /\ Len(HopCalls) = 2
    /\ charmhub # LastRead

C29_WitnessMissingKey ==
    /\ StoppedOnBase /\ err = "KeyError"
    /\ idx = 2 /\ Len(HopMappings) = 2
    /\ Len(HopCalls) = 1
    /\ charmhub # LastRead

----------------------------------------------------------------------------
NeverReleased(mapping, channel) == HubEntry(mapping, channel).revision = None

SentinelCalls == {i \in 1..Len(calls) : calls[i].cmd = "release" /\ calls[i].revision = -1}

(***************************************************************************)
(* C30: promote guards a release only by the open/closed status of the two *)
(* channels: on a base whose source channel is open but was never released *)
(* (its revision is the sentinel -1) and whose target channel is open, it  *)
(* issues a release call whose revision is the sentinel -1.                *)
(***************************************************************************)
C30_ReleasesTheSentinel ==
    [][(/\ pc = "loop" /\ ~dry_run /\ idx <= Len(track_status.bases)
        /\ HubOpen(HopMappings[idx], source) /\ HubOpen(HopMappings[idx], target))
       => /\ Len(calls') = Len(calls) + 1
          /\ calls'[Len(calls')].cmd = "release"
          /\ calls'[Len(calls')].channel = target
          /\ NeverReleased(HopMappings[idx], source) => calls'[Len(calls')].revision = -1
          /\ ~NeverReleased(HopMappings[idx], source) =>
                calls'[Len(calls')].revision = HubEntry(HopMappings[idx], source).revision[1]]_vars

C30_Witness ==
    /\ ~dry_run /\ reads # <<>> /\ HopMappings # <<>>
    /\ idx <= Len(HopMappings)
    /\ HubOpen(HopMappings[idx], source) /\ HubOpen(HopMappings[idx], target)
    /\ NeverReleased(HopMappings[idx], source)
    /\ SentinelCalls # {}
    /\ calls[Len(calls)] = ReleaseCall(target, -1, <<>>)
====
